---- MODULE Spec2Model ----
(***************************************************************************)
(* Pomodoro gamification engine (src/pomodoro/gamification.py): the pure   *)
(* formula library (level curve, session XP, streak) and the               *)
(* GamificationTracker that accumulates per-day statistics and awards      *)
(* badges.                                                                 *)
(*                                                                         *)
(* Representation.                                                         *)
(*  - A date string "YYYY-MM-DD" is the tuple <<Y, M, D>> of its three     *)
(*    zero-padded fields; comparing two such strings is comparing the      *)
(*    tuples lexicographically (StrLess).  A datetime.date is its          *)
(*    proleptic Gregorian ordinal; strptime(...).date() is ParseDate.      *)
(*  - The dict _daily_stats is an insertion-ordered sequence of DailyStats *)
(*    records, at most one per date.                                       *)
(*  - The date provider is an input of every call; it returns one value    *)
(*    for the whole call (no operation is suspended, and the clock is not  *)
(*    modelled inside a call).                                             *)
(***************************************************************************)
EXTENDS Integers, Sequences, FiniteSets, TLC

\* ------------------------------------------------------------------ bounds
MaxCalls == 3          \* record_pomodoro calls in one behaviour
NumDays == 3           \* size of the window of dates the date provider returns
MaxProbeXp == 3000     \* largest XP handed to calculate_level
MaxProbeNeg == 5       \* the most negative XP handed to calculate_level is -5
MaxBadgeCalls == 2     \* record_pomodoro calls after a replayed history
MaxQueryCalls == 2     \* record_pomodoro calls before a query
MaxConcCalls == 2      \* record_pomodoro calls of the request threads together
MaxErrCalls == 3       \* record_pomodoro calls when calls can raise
MaxProbeLevel == 12    \* largest level handed to calculate_xp_for_level
MaxProbeMinutes == 100 \* largest focus time, in minutes, handed to calculate_pomodoro_xp
MaxProbeStreak == 7    \* largest streak handed to calculate_pomodoro_xp
ProbeDays == 5         \* size of the window of dates handed to calculate_streak
MaxListLen == 3        \* longest dates list handed to calculate_streak

\* First date of the window: 2025-12-30, so that consecutive days cross the
\* end of a month and of a year.
FirstDay == <<2025, 12, 30>>

\* focus_seconds values a caller passes (non-negative integers): nothing, the
\* 25 minutes of the tests, the least value whose first-session XP is 700
\* (level 5), and 100 hours
FocusChoices == {0, 1500, 38220, 360000}

\* focus_seconds values of a first call: around the first-session thresholds
\* of level 5 (38220 s), level 10 (147300 s) and of 100 hours (360000 s)
FirstFocus ==
    {0, 59, 60, 1500, 359999, 360000, 360060}
    \cup {m * 60 + r : m \in 633..640, r \in {0, 59}}
    \cup {m * 60 + r : m \in 2451..2458, r \in {0, 59}}

\* ------------------------------------------------- calendar (datetime.date)
IsLeap(y) == (y % 4 = 0) /\ ((y % 100 # 0) \/ (y % 400 = 0))

DaysInMonth(y, m) ==
    IF m = 2 THEN (IF IsLeap(y) THEN 29 ELSE 28)
    ELSE IF m \in {4, 6, 9, 11} THEN 30 ELSE 31

RECURSIVE DaysBeforeMonth(_, _)
DaysBeforeMonth(y, m) ==
    IF m <= 1 THEN 0 ELSE DaysBeforeMonth(y, m - 1) + DaysInMonth(y, m - 1)

DaysBeforeYear(y) ==
    (y - 1) * 365 + ((y - 1) \div 4) - ((y - 1) \div 100) + ((y - 1) \div 400)

\* datetime.strptime(s, "%Y-%m-%d").date(), as the date's ordinal
ParseDate(s) == DaysBeforeYear(s[1]) + DaysBeforeMonth(s[1], s[2]) + s[3]

\* the day after a date string's date, again as a date string
NextDay(s) ==
    IF s[3] < DaysInMonth(s[1], s[2]) THEN <<s[1], s[2], s[3] + 1>>
    ELSE IF s[2] < 12 THEN <<s[1], s[2] + 1, 1>>
    ELSE <<s[1] + 1, 1, 1>>

RECURSIVE AddDays(_, _)
AddDays(s, n) == IF n <= 0 THEN s ELSE AddDays(NextDay(s), n - 1)

\* the dates the date provider returns
DateDomain == {AddDays(FirstDay, i) : i \in 0..(NumDays - 1)}

\* comparison of two date strings, as str.__lt__ compares them
StrLess(a, b) ==
    \/ a[1] < b[1]
    \/ a[1] = b[1] /\ a[2] < b[2]
    \/ a[1] = b[1] /\ a[2] = b[2] /\ a[3] < b[3]

\* ------------------------------------------------------- formula library
RECURSIVE LevelLoop(_, _, _, _)
LevelLoop(xp, level, xp_required, xp_increment) ==
    IF xp >= xp_required
    THEN LevelLoop(xp, level + 1, xp_required + xp_increment, xp_increment + 50)
    ELSE level - 1

\* faulty variant: the loop test is xp > xp_required, so a threshold is reached one
\* XP late
RECURSIVE LevelLoopStrict(_, _, _, _)
LevelLoopStrict(xp, level, xp_required, xp_increment) ==
    IF xp > xp_required
    THEN LevelLoopStrict(xp, level + 1, xp_required + xp_increment, xp_increment + 50)
    ELSE level - 1

calculate_level_strict(xp) ==
    IF xp < 0 THEN 1 ELSE LevelLoopStrict(xp, 1, 0, 100)

calculate_level(xp) ==
    IF xp < 0 THEN 1 ELSE LevelLoop(xp, 1, 0, 100)

RECURSIVE XpForLevelLoop(_, _, _)
XpForLevelLoop(n, xp_required, xp_increment) ==
    IF n <= 0 THEN xp_required
    ELSE XpForLevelLoop(n - 1, xp_required + xp_increment, xp_increment + 50)

\* faulty variant: range(1, level + 1), one increment too many
calculate_xp_for_level_off(level) ==
    IF level <= 1 THEN 0 ELSE XpForLevelLoop(level, 0, 100)

calculate_xp_for_level(level) ==
    IF level <= 1 THEN 0 ELSE XpForLevelLoop(level - 1, 0, 100)

Min(a, b) == IF a <= b THEN a ELSE b

\* The float 1 + min(streak_days * 0.1, 0.5) is the IEEE-754 double nearest
\* to (10 + min(streak_days, 5)) / 10.  MultTenths is ten times its decimal
\* value; MultErr is its distance from that decimal value in units of
\* 2^-52 / 10 (1.1 and 1.3 lie above, 1.2 and 1.4 lie below, 1.0 and 1.5
\* are exact).  streak_days >= 0.
MultTenths(streak_days) == 10 + Min(streak_days, 5)

MultErr(streak_days) ==
    CASE streak_days = 1 -> 4
      [] streak_days = 2 -> -2
      [] streak_days = 3 -> 2
      [] streak_days = 4 -> -4
      [] OTHER -> 0

RECURSIVE Pow2Floor(_, _)
Pow2Floor(q, p) == IF 2 * p <= q THEN Pow2Floor(q, 2 * p) ELSE p

\* int(base_xp * (1 + streak_bonus)): the double product, rounded to nearest
\* (ties to even), then truncated.  With n = base_xp * MultTenths the exact
\* product is n/10 + base_xp * MultErr / (10 * 2^52).  It truncates to
\* n \div 10 unless n/10 is an integer q, the multiplier lies below its
\* decimal value, and the deficit exceeds half the spacing of the doubles
\* below q (2^(e-52) with 2^e <= q), in which case the product rounds to
\* the double below q and truncates to q - 1.
FloatMulTrunc(base_xp, streak_days) ==
    LET n == base_xp * MultTenths(streak_days)
        q == n \div 10
        c == MultErr(streak_days)
    IN  IF n % 10 # 0 \/ c >= 0 \/ q = 0 THEN q
        ELSE IF base_xp * (0 - c) > 5 * Pow2Floor(q, 1) THEN q - 1 ELSE q

calculate_pomodoro_xp(focus_seconds, streak_days) ==
    FloatMulTrunc(focus_seconds \div 60, streak_days)

\* set(dates) of a list of date strings
ToSet(dates) == {dates[i] : i \in DOMAIN dates}

\* sorted(S, reverse=True) of a set of date strings
RECURSIVE SortedDesc(_)
SortedDesc(S) ==
    IF S = {} THEN <<>>
    ELSE LET mx == CHOOSE a \in S : \A b \in S : ~StrLess(a, b)
         IN  <<mx>> \o SortedDesc(S \ {mx})

RECURSIVE StreakLoop(_, _, _)
StreakLoop(unique_dates, i, streak) ==
    IF i > Len(unique_dates) - 1 THEN streak
    ELSE IF ParseDate(unique_dates[i]) - ParseDate(unique_dates[i + 1]) = 1
         THEN StreakLoop(unique_dates, i + 1, streak + 1)
         ELSE streak

\* sorted(S) of a set of date strings
RECURSIVE SortedAsc(_)
SortedAsc(S) ==
    IF S = {} THEN <<>>
    ELSE LET mn == CHOOSE a \in S : \A b \in S : ~StrLess(b, a)
         IN  <<mn>> \o SortedAsc(S \ {mn})

\* faulty variant: sorted without reverse=True, the oldest date first
calculate_streak_ascending(dates, today) ==
    IF Len(dates) = 0 THEN 0
    ELSE LET unique_dates == SortedAsc(ToSet(dates))
         IN  IF ParseDate(today) - ParseDate(unique_dates[1]) > 1 THEN 0
             ELSE StreakLoop(unique_dates, 1, 1)

\* faulty variant: the test that the most recent date is today or yesterday is
\* missing
calculate_streak_no_recency(dates, today) ==
    IF Len(dates) = 0 THEN 0
    ELSE StreakLoop(SortedDesc(ToSet(dates)), 1, 1)

\* faulty variant: the count starts at 0 instead of 1
calculate_streak_from0(dates, today) ==
    IF Len(dates) = 0 THEN 0
    ELSE LET unique_dates == SortedDesc(ToSet(dates))
         IN  IF ParseDate(today) - ParseDate(unique_dates[1]) > 1 THEN 0
             ELSE StreakLoop(unique_dates, 1, 0)

calculate_streak(dates, today) ==
    IF Len(dates) = 0 THEN 0
    ELSE LET unique_dates == SortedDesc(ToSet(dates))
         IN  IF ParseDate(today) - ParseDate(unique_dates[1]) > 1 THEN 0
             ELSE StreakLoop(unique_dates, 1, 1)

\* ------------------------------------------------------------ tracker state
VARIABLES
    total_xp,             \* GamificationTracker._total_xp
    total_focus_seconds,  \* GamificationTracker._total_focus_seconds
    badges,               \* GamificationTracker._badges, a list of Badge
    daily_stats,          \* GamificationTracker._daily_stats, in insertion order
    today,                \* the date the date provider returned on the last call
    last_focus,           \* focus_seconds of the last record_pomodoro call
    streak_dates,         \* the dates list of the streak that sets the XP bonus
    result,               \* the dict the last record_pomodoro call returned
    calls,                \* number of record_pomodoro calls so far
    probe                 \* the last call of a pure function and what it returned

vars == <<total_xp, total_focus_seconds, badges, daily_stats, today,
          last_focus, streak_dates, result, calls, probe>>

tracker == <<total_xp, total_focus_seconds, badges, daily_stats, today,
             last_focus, streak_dates, result, calls>>

NoDate == <<0, 0, 0>>
NoResult == [xp_earned |-> 0, total_xp |-> 0, level |-> 0,
             new_badges |-> <<>>, streak_days |-> 0]
NoProbe == [fn |-> "none"]

BadgeTypes == <<"first_pomodoro", "streak_3", "streak_7", "streak_30",
                "weekly_10", "weekly_25", "monthly_50", "monthly_100",
                "level_5", "level_10", "focus_master">>

DailyStats(date) ==
    [date |-> date, completed_pomodoros |-> 0,
     total_focus_seconds |-> 0, xp_earned |-> 0]

Badge(badge_type, earned_at) == [badge_type |-> badge_type, earned_at |-> earned_at]

\* list(self._daily_stats.keys())
Keys(ds) == [i \in DOMAIN ds |-> ds[i].date]

HasKey(ds, date) == \E i \in DOMAIN ds : ds[i].date = date

IndexOf(ds, date) == CHOOSE i \in DOMAIN ds : ds[i].date = date

get_or_create_daily_stats(ds, date) ==
    IF ~HasKey(ds, date) THEN Append(ds, DailyStats(date)) ELSE ds

streak_days(ds, date) == calculate_streak(Keys(ds), date)

\* faulty variant: the new badge is put in front of the list
award_badge_front(bs, badge_type, date) ==
    <<[badge_type |-> badge_type, earned_at |-> date]>> \o bs

\* faulty variant: the never-owned answer, so the gate before an award is open
has_badge_never(bs, badge_type) == FALSE

has_badge(bs, badge_type) == \E i \in DOMAIN bs : bs[i].badge_type = badge_type

award_badge(bs, badge_type, date) == Append(bs, Badge(badge_type, date))

\* faulty variant: Sunday is 0
Weekday_sunday0(ord) == ord % 7

\* d.weekday(): Monday is 0
Weekday(ord) == (ord + 6) % 7

\* d.replace(day=1)
MonthStart(s) == ParseDate(<<s[1], s[2], 1>>)

\* sum of completed_pomodoros over the entries dated from lo to hi
RECURSIVE CountBetween(_, _, _, _)
CountBetween(ds, i, lo, hi) ==
    IF i > Len(ds) THEN 0
    ELSE LET d == ParseDate(ds[i].date)
         IN  (IF d >= lo /\ d <= hi THEN ds[i].completed_pomodoros ELSE 0)
             + CountBetween(ds, i + 1, lo, hi)

get_weekly_pomodoros(ds, date) ==
    LET t == ParseDate(date)
        week_start == t - Weekday(t)
    IN  CountBetween(ds, 1, week_start, t)

get_monthly_pomodoros(ds, date) ==
    CountBetween(ds, 1, MonthStart(date), ParseDate(date))

RECURSIVE SumField(_, _, _)
SumField(ds, i, f) ==
    IF i > Len(ds) THEN 0 ELSE ds[i][f] + SumField(ds, i + 1, f)

\* one rule of _check_badges, "if <cond> and not self._has_badge(t):
\* new_badges.append(self._award_badge(t))", on the pair of self._badges and
\* the local list new_badges
Rule(acc, cond, badge_type, date) ==
    IF cond /\ ~has_badge(acc.badges, badge_type)
    THEN [badges |-> award_badge(acc.badges, badge_type, date),
          new_badges |-> Append(acc.new_badges, Badge(badge_type, date))]
    ELSE acc

\* faulty variant: the level rules test "level > 5" and "level > 10"
check_badges_level_gt(bs, ds, xp, focus, date) ==
    LET total_pomodoros == SumField(ds, 1, "completed_pomodoros")
        b0  == [badges |-> bs, new_badges |-> <<>>]
        b1  == Rule(b0, total_pomodoros >= 1, "first_pomodoro", date)
        streak == streak_days(ds, date)
        b2  == Rule(b1, streak >= 3, "streak_3", date)
        b3  == Rule(b2, streak >= 7, "streak_7", date)
        b4  == Rule(b3, streak >= 30, "streak_30", date)
        weekly_count == get_weekly_pomodoros(ds, date)
        b5  == Rule(b4, weekly_count >= 10, "weekly_10", date)
        b6  == Rule(b5, weekly_count >= 25, "weekly_25", date)
        monthly_count == get_monthly_pomodoros(ds, date)
        b7  == Rule(b6, monthly_count >= 50, "monthly_50", date)
        b8  == Rule(b7, monthly_count >= 100, "monthly_100", date)
        level == calculate_level(xp)
        b9  == Rule(b8, level > 5, "level_5", date)
        b10 == Rule(b9, level > 10, "level_10", date)
    IN  Rule(b10, focus >= 360000, "focus_master", date)

\* _check_badges: self._badges and the returned new_badges after the rules ran
\* in their fixed order
check_badges(bs, ds, xp, focus, date) ==
    LET total_pomodoros == SumField(ds, 1, "completed_pomodoros")
        b0  == [badges |-> bs, new_badges |-> <<>>]
        b1  == Rule(b0, total_pomodoros >= 1, "first_pomodoro", date)
        streak == streak_days(ds, date)
        b2  == Rule(b1, streak >= 3, "streak_3", date)
        b3  == Rule(b2, streak >= 7, "streak_7", date)
        b4  == Rule(b3, streak >= 30, "streak_30", date)
        weekly_count == get_weekly_pomodoros(ds, date)
        b5  == Rule(b4, weekly_count >= 10, "weekly_10", date)
        b6  == Rule(b5, weekly_count >= 25, "weekly_25", date)
        monthly_count == get_monthly_pomodoros(ds, date)
        b7  == Rule(b6, monthly_count >= 50, "monthly_50", date)
        b8  == Rule(b7, monthly_count >= 100, "monthly_100", date)
        level == calculate_level(xp)
        b9  == Rule(b8, level >= 5, "level_5", date)
        b10 == Rule(b9, level >= 10, "level_10", date)
    IN  Rule(b10, focus >= 360000, "focus_master", date)

\* faulty variant: the streak is taken before today's entry is created
BonusStreakDates_before(ds, date) == Keys(ds)

\* the dates behind "streak = self.streak_days" of record_pomodoro: the keys
\* of the day map after _get_or_create_daily_stats(today)
BonusStreakDates(ds, date) == Keys(get_or_create_daily_stats(ds, date))

\* faulty variant: "=" for "+=" on stats.xp_earned
UpdateStats_xp_assign(stats, focus_seconds, xp_earned) ==
    [stats EXCEPT !.completed_pomodoros = @ + 1,
                  !.total_focus_seconds = @ + focus_seconds,
                  !.xp_earned = xp_earned]

\* faulty variant: stats.total_focus_seconds is not updated
UpdateStats_no_focus(stats, focus_seconds, xp_earned) ==
    [stats EXCEPT !.completed_pomodoros = @ + 1,
                  !.xp_earned = @ + xp_earned]

\* the three updates of today's DailyStats
UpdateStats(stats, focus_seconds, xp_earned) ==
    [stats EXCEPT !.completed_pomodoros = @ + 1,
                  !.total_focus_seconds = @ + focus_seconds,
                  !.xp_earned = @ + xp_earned]

\* faulty variant: "=" for "+=" on the totals
AddTo_assign(total, amount) == amount

\* "self._total_xp += xp_earned", "self._total_focus_seconds += focus_seconds"
AddTo(total, amount) == total + amount

Init ==
    /\ total_xp = 0
    /\ total_focus_seconds = 0
    /\ badges = <<>>
    /\ daily_stats = <<>>
    /\ today = NoDate
    /\ last_focus = 0
    /\ streak_dates = <<>>
    /\ result = NoResult
    /\ calls = 0
    /\ probe = NoProbe

\* the tracker's fields as one value
Self == [total_xp |-> total_xp, total_focus_seconds |-> total_focus_seconds,
         badges |-> badges, daily_stats |-> daily_stats]

\* faulty variant: the returned level is read before the XP is added
record_pomodoro_level_first(st, date, focus_seconds) ==
    LET ds1 == get_or_create_daily_stats(st.daily_stats, date)
        dates == BonusStreakDates(st.daily_stats, date)
        streak == calculate_streak(dates, date)
        xp_earned == calculate_pomodoro_xp(focus_seconds, streak)
        xp == AddTo(st.total_xp, xp_earned)
        focus == AddTo(st.total_focus_seconds, focus_seconds)
        k == IndexOf(ds1, date)
        ds2 == [ds1 EXCEPT ![k] = UpdateStats(@, focus_seconds, xp_earned)]
        checked == check_badges(st.badges, ds2, xp, focus, date)
    IN  [total_xp |-> xp,
         total_focus_seconds |-> focus,
         daily_stats |-> ds2,
         badges |-> checked.badges,
         streak_dates |-> dates,
         result |-> [xp_earned |-> xp_earned,
                     total_xp |-> xp,
                     level |-> calculate_level(st.total_xp),
                     new_badges |-> checked.new_badges,
                     streak_days |-> streak_days(ds2, date)]]

\* record_pomodoro(focus_seconds) on a tracker st, the date provider returning
\* date: the tracker's fields after the call, the dates list of the bonus
\* streak and the returned dict
record_pomodoro(st, date, focus_seconds) ==
    LET ds1 == get_or_create_daily_stats(st.daily_stats, date)
        dates == BonusStreakDates(st.daily_stats, date)
        streak == calculate_streak(dates, date)
        xp_earned == calculate_pomodoro_xp(focus_seconds, streak)
        xp == AddTo(st.total_xp, xp_earned)
        focus == AddTo(st.total_focus_seconds, focus_seconds)
        k == IndexOf(ds1, date)
        ds2 == [ds1 EXCEPT ![k] = UpdateStats(@, focus_seconds, xp_earned)]
        checked == check_badges(st.badges, ds2, xp, focus, date)
    IN  [total_xp |-> xp,
         total_focus_seconds |-> focus,
         daily_stats |-> ds2,
         badges |-> checked.badges,
         streak_dates |-> dates,
         result |-> [xp_earned |-> xp_earned,
                     total_xp |-> xp,
                     level |-> calculate_level(xp),
                     new_badges |-> checked.new_badges,
                     streak_days |-> streak_days(ds2, date)]]

\* a record_pomodoro call as a step of the tracker
RecordPomodoro(date, focus_seconds) ==
    \E after \in {record_pomodoro(Self, date, focus_seconds)} :
        /\ total_xp' = after.total_xp
        /\ total_focus_seconds' = after.total_focus_seconds
        /\ daily_stats' = after.daily_stats
        /\ badges' = after.badges
        /\ today' = date
        /\ last_focus' = focus_seconds
        /\ streak_dates' = after.streak_dates
        /\ result' = after.result
        /\ calls' = calls + 1
        /\ UNCHANGED probe

Record ==
    /\ calls < MaxCalls
    /\ \E date \in DateDomain, focus_seconds \in FocusChoices :
           RecordPomodoro(date, focus_seconds)

Next == Record

Spec == Init /\ [][Next]_vars

\* the first call of a fresh tracker, over the focus_seconds values FirstFocus
RecordFirst ==
    /\ calls < 1
    /\ \E date \in DateDomain, focus_seconds \in FirstFocus :
           RecordPomodoro(date, focus_seconds)

NextFirst == RecordFirst

SpecFirst == Init /\ [][NextFirst]_vars

\* ------------------------------------------- calls of the pure functions
\* one call of a pure function in a behaviour, on an argument of its range
ProbeLevel ==
    /\ probe = NoProbe
    /\ \E xp \in (0 - MaxProbeNeg)..MaxProbeXp :
           probe' = [fn |-> "calculate_level", arg |-> xp,
                     res |-> calculate_level(xp),
                     res_below |-> calculate_level(xp - 1)]
    /\ UNCHANGED tracker

ProbeXpForLevel ==
    /\ probe = NoProbe
    /\ \E n \in 0..MaxProbeLevel :
           probe' = [fn |-> "calculate_xp_for_level", arg |-> n,
                     res |-> calculate_xp_for_level(n)]
    /\ UNCHANGED tracker

\* calculate_level(calculate_xp_for_level(n)) and, one XP below,
\* calculate_level(calculate_xp_for_level(n) - 1)
ProbeRoundTrip ==
    /\ probe = NoProbe
    /\ \E n \in 0..MaxProbeLevel :
           LET xp == calculate_xp_for_level(n)
           IN  probe' = [fn |-> "round_trip", arg |-> n, xp |-> xp,
                         res |-> calculate_level(xp),
                         res_below |-> calculate_level(xp - 1)]
    /\ UNCHANGED tracker

NextLevel == ProbeLevel \/ ProbeXpForLevel \/ ProbeRoundTrip

SpecLevel == Init /\ [][NextLevel]_vars

\* ------------------------------------------------------------------ claims
BadgeKinds(bs) == [i \in DOMAIN bs |-> bs[i].badge_type]

\* C1: after any sequence of record_pomodoro calls, total XP equals the sum of
\* xp_earned over all DailyStats entries of the day map.
C1_TotalXpIsSumOfDays == total_xp = SumField(daily_stats, 1, "xp_earned")

\* several sessions that earned XP, on more than one day, one day repeated
C1_Witness ==
    /\ Len(daily_stats) >= 2
    /\ \A i \in DOMAIN daily_stats : daily_stats[i].xp_earned > 0
    /\ \E i \in DOMAIN daily_stats : daily_stats[i].completed_pomodoros >= 2

\* C2: after any sequence of record_pomodoro calls, total focus-seconds equals
\* the sum of total_focus_seconds over all DailyStats entries of the day map.
C2_TotalFocusIsSumOfDays ==
    total_focus_seconds = SumField(daily_stats, 1, "total_focus_seconds")

C2_Witness ==
    /\ Len(daily_stats) >= 2
    /\ \A i \in DOMAIN daily_stats : daily_stats[i].total_focus_seconds > 0
    /\ total_focus_seconds > 360000

\* C3: no badge kind appears twice in the badge list, whatever the calls and
\* the dates, however long a badge's predicate stays true.
C3_NoBadgeTwice ==
    \A i, j \in DOMAIN badges :
        badges[i].badge_type = badges[j].badge_type => i = j

\* a call that found the predicates of owned badges still true and awarded
\* nothing
C3_Witness ==
    /\ calls >= 2
    /\ has_badge(badges, "first_pomodoro")
    /\ has_badge(badges, "focus_master")
    /\ has_badge(badges, "level_10")
    /\ result.new_badges = <<>>

\* C4: with non-negative focus_seconds, total XP and total focus-seconds never
\* decrease from one call to the next.
C4_TotalsNeverDecrease ==
    [][total_xp' >= total_xp /\ total_focus_seconds' >= total_focus_seconds]_vars

\* a later call that earned less than an earlier one
C4_Witness ==
    /\ calls >= 2
    /\ result.xp_earned > 0
    /\ total_xp > 2 * result.xp_earned
    /\ total_focus_seconds > 2 * last_focus

\* C5 as claimed: the first call on a fresh tracker returns exactly one new
\* badge, of kind first_pomodoro, for every focus_seconds and date.
C5_FirstCallOneBadge ==
    calls = 1 => BadgeKinds(result.new_badges) = <<"first_pomodoro">>

\* the new_badges of a first call that earned xp with focus_seconds of focus
FirstCallKinds(xp, focus) ==
    <<"first_pomodoro">>
    \o (IF xp >= 700 THEN <<"level_5">> ELSE <<>>)
    \o (IF xp >= 2700 THEN <<"level_10">> ELSE <<>>)
    \o (IF focus >= 360000 THEN <<"focus_master">> ELSE <<>>)

\* C5 (amended): the first call on a fresh tracker returns new_badges that
\* starts with first_pomodoro, followed by level_5 if the XP earned is at
\* least 700, level_10 if it is at least 2700 and focus_master if
\* focus_seconds is at least 360000, and by nothing else; so it is exactly
\* one badge, first_pomodoro, if and only if focus_seconds < 38220.
C5_FirstCallBadges ==
    calls = 1 =>
        /\ BadgeKinds(result.new_badges)
               = FirstCallKinds(result.xp_earned, last_focus)
        /\ \A i \in DOMAIN result.new_badges :
               result.new_badges[i].earned_at = today
        /\ badges = result.new_badges
        /\ (Len(result.new_badges) = 1) <=> (last_focus < 38220)

\* a first call just below the level-5 threshold, with one badge
C5_Witness ==
    /\ calls = 1
    /\ last_focus = 38219
    /\ BadgeKinds(result.new_badges) = <<"first_pomodoro">>

\* C6 as claimed: the streak of the XP bonus is calculated from the dates that
\* had sessions before the call; on the first session of a new day today is
\* not in the set passed to the streak calculation.
C6_BonusStreakBeforeToday ==
    [][calls' = calls + 1 =>
          /\ ToSet(streak_dates') = ToSet(Keys(daily_stats))
          /\ (~HasKey(daily_stats, today') =>
                  today' \notin ToSet(streak_dates'))]_vars

\* C6 (amended): the streak of the XP bonus is calculated from the keys of the
\* day map after today's entry was created: the set passed to the streak
\* calculation is the dates that had sessions before the call together with
\* today, also on the first session of a new day, and the XP earned is
\* calculate_pomodoro_xp of the streak of that set.
C6_BonusStreakIncludesToday ==
    [][calls' = calls + 1 =>
          /\ ToSet(streak_dates') = ToSet(Keys(daily_stats)) \cup {today'}
          /\ result'.xp_earned =
                 calculate_pomodoro_xp(last_focus',
                                       calculate_streak(streak_dates', today'))]_vars

\* the first session of a new day, after sessions on another day
C6_Witness ==
    /\ Len(daily_stats) >= 2
    /\ daily_stats[Len(daily_stats)].date = today
    /\ daily_stats[Len(daily_stats)].completed_pomodoros = 1
    /\ today \in ToSet(streak_dates)

\* one session on each of Len(ds) consecutive days, from a fresh tracker
OnePerConsecutiveDay(ds) ==
    \A i \in DOMAIN ds :
        /\ ds[i].completed_pomodoros = 1
        /\ ParseDate(ds[i].date) = ParseDate(ds[1].date) + i - 1

\* C7: on a fresh tracker with one session on each of k consecutive days, the
\* session of day k earns calculate_pomodoro_xp(focus_seconds, k); 1500
\* seconds earn 27 XP on the first day, 30 on the second, 32 on the third.
C7_BonusStreakCountsToday ==
    (calls >= 1 /\ OnePerConsecutiveDay(daily_stats)) =>
        LET k == Len(daily_stats)
        IN  /\ result.xp_earned = calculate_pomodoro_xp(last_focus, k)
            /\ (last_focus = 1500 /\ k = 1 => result.xp_earned = 27)
            /\ (last_focus = 1500 /\ k = 2 => result.xp_earned = 30)
            /\ (last_focus = 1500 /\ k = 3 => result.xp_earned = 32)

C7_Witness ==
    /\ OnePerConsecutiveDay(daily_stats)
    /\ Len(daily_stats) = 3
    /\ last_focus = 1500
    /\ result.xp_earned = 32

\* ordinals of the dates of the day map
KeyOrdinals(ds) == {ParseDate(ds[i].date) : i \in DOMAIN ds}

\* length of the run of consecutive days in S that ends at top
RunEndingAt(S, top) ==
    CHOOSE n \in 0..Cardinality(S) :
        /\ \A j \in 0..(n - 1) : (top - j) \in S
        /\ (top - n) \notin S

MaxOf(S) == CHOOSE a \in S : \A b \in S : b <= a

\* C8: the streak_days a call returns is the streak after the update, over
\* the dates with sessions including today: the run of consecutive days
\* ending at the most recent of them; it is at least 1, it is k after one
\* session on each of k consecutive days, and a repeat session on the same
\* day leaves it unchanged.
C8_ReturnedStreakIsPostUpdate ==
    [][calls' = calls + 1 =>
          /\ HasKey(daily_stats', today')
          /\ result'.streak_days =
                 RunEndingAt(KeyOrdinals(daily_stats'),
                             MaxOf(KeyOrdinals(daily_stats')))
          /\ result'.streak_days >= 1
          /\ (OnePerConsecutiveDay(daily_stats') =>
                  result'.streak_days = Len(daily_stats'))
          /\ (calls >= 1 /\ today' = today =>
                  result'.streak_days = result.streak_days)]_vars

\* a repeat session on the second of two consecutive days
C8_Witness ==
    /\ calls >= 3
    /\ Len(daily_stats) = 2
    /\ result.streak_days = 2
    /\ \E i \in DOMAIN daily_stats :
           daily_stats[i].date = today /\ daily_stats[i].completed_pomodoros >= 2

\* C9: calculate_level(calculate_xp_for_level(n)) = n for every n >= 1, and
\* calculate_level(calculate_xp_for_level(n) - 1) = n - 1 for every n >= 2.
C9_LevelConsistency ==
    probe.fn = "round_trip" =>
        /\ (probe.arg >= 1 => probe.res = probe.arg)
        /\ (probe.arg >= 2 => probe.res_below = probe.arg - 1)

C9_Witness ==
    /\ probe.fn = "round_trip"
    /\ probe.arg = 10
    /\ probe.xp = 2700
    /\ probe.res = 10
    /\ probe.res_below = 9

\* T(1) = 0, T(n + 1) = T(n) + 100 + 50 * (n - 1)
RECURSIVE Threshold(_)
Threshold(n) ==
    IF n <= 1 THEN 0 ELSE Threshold(n - 1) + 100 + 50 * (n - 2)

\* C10: for xp >= 0 calculate_level(xp) is the largest level n with
\* T(n) <= xp (thresholds 0, 100, 250, 450, ...); it is 1 for negative xp;
\* and it is non-decreasing in xp.
C10_LevelIsLargestThreshold ==
    probe.fn = "calculate_level" =>
        /\ (probe.arg < 0 => probe.res = 1)
        /\ (probe.arg >= 0 =>
               /\ probe.res >= 1
               /\ Threshold(probe.res) <= probe.arg
               /\ probe.arg < Threshold(probe.res + 1))
        /\ probe.res_below <= probe.res
        /\ (probe.arg = 0 => probe.res = 1)
        /\ (probe.arg = 99 => probe.res = 1)
        /\ (probe.arg = 100 => probe.res = 2)
        /\ (probe.arg = 250 => probe.res = 3)
        /\ (probe.arg = 450 => probe.res = 4)

\* an XP exactly on a threshold, where the level rises
C10_Witness ==
    /\ probe.fn = "calculate_level"
    /\ probe.arg = 450
    /\ probe.res = 4
    /\ probe.res_below = 3

\* ---------------------------------------------- calculate_pomodoro_xp calls
ProbePomodoroXp ==
    /\ probe = NoProbe
    /\ \E m \in 0..MaxProbeMinutes, r \in {0, 59}, s \in 0..MaxProbeStreak :
           probe' = [fn |-> "calculate_pomodoro_xp",
                     focus_seconds |-> m * 60 + r, streak_days |-> s,
                     res |-> calculate_pomodoro_xp(m * 60 + r, s)]
    /\ UNCHANGED tracker

NextXp == ProbePomodoroXp

SpecXp == Init /\ [][NextXp]_vars

\* C11: calculate_pomodoro_xp(focus_seconds, streak_days) is
\* floor(floor(focus_seconds / 60) * (10 + min(streak_days, 5)) / 10) in exact
\* arithmetic, and every streak_days >= 5 gives the result of streak_days = 5.
C11_XpIsExactFloor ==
    probe.fn = "calculate_pomodoro_xp" =>
        /\ probe.res = ((probe.focus_seconds \div 60)
                           * (10 + Min(probe.streak_days, 5))) \div 10
        /\ (probe.streak_days >= 5 =>
               probe.res = calculate_pomodoro_xp(probe.focus_seconds, 5))

\* -------------------------------------------------- calculate_streak calls
StreakDates == {AddDays(FirstDay, i) : i \in 0..(ProbeDays - 1)}

DateLists == UNION {[1..n -> StreakDates] : n \in 0..MaxListLen}

ProbeStreak ==
    /\ probe = NoProbe
    /\ \E dates \in DateLists, t \in StreakDates :
           probe' = [fn |-> "calculate_streak", dates |-> dates, today |-> t,
                     res |-> calculate_streak(dates, t)]
    /\ UNCHANGED tracker

NextStreak == ProbeStreak

SpecStreak == Init /\ [][NextStreak]_vars

\* the streak of a set S of day ordinals on day t: 0 if S is empty or its most
\* recent day is more than one day before t, else the run ending at that day
StreakOfSet(S, t) ==
    IF S = {} THEN 0
    ELSE IF t - MaxOf(S) > 1 THEN 0
    ELSE RunEndingAt(S, MaxOf(S))

Repeat(n, date) == [i \in 1..n |-> <<date, 0>>]

\* one session of 0 seconds on each of n consecutive days
Run(first, n) == [i \in 1..n |-> <<AddDays(first, i - 1), 0>>]

\* histories that end on Wednesday 2025-12-31, one session short of a weekly,
\* monthly or streak threshold
SeedScripts ==
    <<<< >>,
      Repeat(9, <<2025, 12, 31>>), Repeat(24, <<2025, 12, 31>>),
      Repeat(49, <<2025, 12, 31>>), Repeat(99, <<2025, 12, 31>>),
      Run(<<2025, 12, 26>>, 6), Run(<<2025, 12, 3>>, 29)>>

\* the dates of the calls after the history: the last day of the history, the
\* next day (same week, next month), and a day after a gap
BadgeDates == {<<2025, 12, 31>>, <<2026, 1, 1>>, <<2026, 1, 3>>}

\* a fresh tracker that is about to be driven through one of the histories
InitBadges ==
    /\ total_xp = 0
    /\ total_focus_seconds = 0
    /\ badges = <<>>
    /\ daily_stats = <<>>
    /\ today = NoDate
    /\ last_focus = 0
    /\ streak_dates = <<>>
    /\ result = NoResult
    /\ calls = 0
    /\ \E k \in DOMAIN SeedScripts : probe = [script |-> k]

Script == SeedScripts[probe.script]

\* the next call of the history
ReplayBadges ==
    /\ calls < Len(Script)
    /\ RecordPomodoro(Script[calls + 1][1], Script[calls + 1][2])

\* a call after the history, on any of BadgeDates with any of FocusChoices
RecordBadges ==
    /\ calls >= Len(Script)
    /\ calls < Len(Script) + MaxBadgeCalls
    /\ \E date \in BadgeDates, focus_seconds \in FocusChoices :
           RecordPomodoro(date, focus_seconds)

NextBadges == ReplayBadges \/ RecordBadges

SpecBadges == InitBadges /\ [][NextBadges]_vars

Owned(bs) == {bs[i].badge_type : i \in DOMAIN bs}

\* the badge kinds whose predicate holds for day map ds, total XP xp and
\* total focus-seconds focus on the date string date
HeldKinds(ds, xp, focus, date) ==
    LET t == ParseDate(date)
        monday == t - ((t - 1) % 7)
        first == t - date[3] + 1
        sessions == SumField(ds, 1, "completed_pomodoros")
        streak == StreakOfSet(KeyOrdinals(ds), t)
        weekly == CountBetween(ds, 1, monday, t)
        monthly == CountBetween(ds, 1, first, t)
    IN  {k \in ToSet(BadgeTypes) :
            \/ k = "first_pomodoro" /\ sessions >= 1
            \/ k = "streak_3" /\ streak >= 3
            \/ k = "streak_7" /\ streak >= 7
            \/ k = "streak_30" /\ streak >= 30
            \/ k = "weekly_10" /\ weekly >= 10
            \/ k = "weekly_25" /\ weekly >= 25
            \/ k = "monthly_50" /\ monthly >= 50
            \/ k = "monthly_100" /\ monthly >= 100
            \/ k = "level_5" /\ xp >= Threshold(5)
            \/ k = "level_10" /\ xp >= Threshold(10)
            \/ k = "focus_master" /\ focus >= 360000}

\* C13: after every record_pomodoro call a badge kind is owned if and only if
\* it was owned before or its predicate holds at the end of the call (so, by
\* induction, iff its predicate held at the end of this or an earlier call); a
\* call that crosses several thresholds awards all of them.
C13_OwnedIffPredicateHeld ==
    [][calls' = calls + 1 =>
          Owned(badges') =
              Owned(badges)
              \cup HeldKinds(daily_stats', total_xp', total_focus_seconds', today')]_vars

\* a call that crossed a weekly, a streak and the level thresholds at once
C13_Witness ==
    /\ calls = 7
    /\ {"streak_7", "level_5", "level_10", "focus_master"}
           \subseteq Owned(result.new_badges)
    /\ "monthly_50" \notin Owned(badges)

RuleIndex(k) == CHOOSE i \in DOMAIN BadgeTypes : BadgeTypes[i] = k

\* C14: the badges a call awards are returned in the fixed rule order, each
\* with the date of that call as its earned date, and the badge list is the
\* badge list before the call followed by new_badges (so it is the
\* concatenation of the new_badges of all calls, nothing removed or reordered).
C14_NewBadgesInRuleOrder ==
    [][calls' = calls + 1 =>
          /\ badges' = badges \o result'.new_badges
          /\ \A i, j \in DOMAIN result'.new_badges :
                 i < j => RuleIndex(result'.new_badges[i].badge_type)
                              < RuleIndex(result'.new_badges[j].badge_type)
          /\ \A i \in DOMAIN result'.new_badges :
                 result'.new_badges[i].earned_at = today']_vars

\* a second call that awarded several badges after the first awarded another
C14_Witness ==
    /\ calls >= 2
    /\ Len(result.new_badges) >= 3
    /\ Len(badges) > Len(result.new_badges)
    /\ badges[1].earned_at # today
    /\ BadgeKinds(result.new_badges) = <<"weekly_25", "level_5", "level_10", "focus_master">>

\* ------------------------------------------------------------- the queries
\* date.fromordinal(ord).isoformat(), as a date string
IsoFormat(ord) ==
    LET y0 == ((ord - 1) * 400) \div 146097 + 1
        y == IF DaysBeforeYear(y0) >= ord THEN y0 - 1
             ELSE IF DaysBeforeYear(y0 + 1) < ord THEN y0 + 1 ELSE y0
        n == ord - DaysBeforeYear(y)
        m == CHOOSE k \in 1..12 :
                 DaysBeforeMonth(y, k) < n /\ n <= DaysBeforeMonth(y, k) + DaysInMonth(y, k)
    IN  <<y, m, n - DaysBeforeMonth(y, m)>>

\* round(n / d, 1) in tenths (a float with one decimal is kept as the integer
\* number of tenths): round-half-even of the quotient.  Exact for the
\* quotients of the statistics: counts over 1..31 days, and focus-seconds that
\* are multiples of 30 over 60 * (1..7).
RoundTenths(n, d) ==
    LET q == (10 * n) \div d
        r == (10 * n) % d
    IN  IF 2 * r > d \/ (2 * r = d /\ q % 2 = 1) THEN q + 1 ELSE q

\* ---- round((x / y) * 100, 1) of calculate_xp_progress, in double arithmetic
RECURSIVE Pow2(_)
Pow2(n) == IF n = 0 THEN 1 ELSE 2 * Pow2(n - 1)

\* a * 2^e mod m, eight doublings at a time while eight are left; a < m and
\* 256 * m stays below 2^31
RECURSIVE ShiftMod(_, _, _)
ShiftMod(a, e, m) ==
    IF e = 0 THEN a % m
    ELSE IF e >= 8 THEN ShiftMod((256 * a) % m, e - 8, m)
    ELSE ShiftMod((2 * a) % m, e - 1, m)

\* the j >= 1 with 2^-j <= x / y < 2^(1-j), for 0 < x < y
RECURSIVE BinExp(_, _, _)
BinExp(x, y, j) == IF x * Pow2(j) >= y THEN j ELSE BinExp(x, y, j + 1)

\* the faulty variant that truncates the percentage instead of rounding it
PercentTenths_floor(x, y) == (1000 * x) \div y

\* round((x / y) * 100, 1) in tenths, for 0 <= x < y.  With E = 52 + j the
\* double x / y is M / 2^E, M the 53-bit integer nearest x * 2^E / y (ties to
\* even), off by d1 = M * y - x * 2^E.  The double product by 100 is
\* (100 * M + d2) / 2^E, d2 the rounding of 100 * M to 53 bits (s low bits
\* dropped, ties to even).  Only the low bits of M are needed: they come from
\* x * 2^E mod 256 * y.  The product differs from the exact percentage by
\* (y * d2 + 100 * d1) / (y * 2^E), far less than the distance of a
\* non-tie quotient from the nearest rounding boundary, so round(., 1) gives
\* the nearest tenth, and at a tie (1000 * x / y = k + 1/2) the side the
\* product fell on, or the even tenth when the product is the tie itself.
PercentTenths(x, y) ==
    IF x = 0 THEN 0
    ELSE
    LET j == BinExp(x, y, 1)
        A == ShiftMod(x, 52 + j, 256 * y)
        r1 == A % y
        fl == (A - r1) \div y
        up1 == 2 * r1 > y \/ (2 * r1 = y /\ fl % 2 = 1)
        d1 == IF up1 THEN y - r1 ELSE 0 - r1
        M == IF up1 THEN fl + 1 ELSE fl
        lhs == 25 * x * Pow2(j)
        s == IF lhs > 32 * y \/ (lhs = 32 * y /\ d1 > 0) THEN 7 ELSE 6
        P == (100 * M) % Pow2(s + 1)
        a == P % Pow2(s)
        half == Pow2(s - 1)
        d2 == IF a < half THEN 0 - a
              ELSE IF a > half THEN Pow2(s) - a
              ELSE IF P >= Pow2(s) THEN half ELSE 0 - half
        k == (1000 * x) \div y
        sg == y * d2 + 100 * d1
    IN  IF (2000 * x) % (2 * y) # y
        THEN IF 2 * ((1000 * x) % y) > y THEN k + 1 ELSE k
        ELSE IF sg > 0 THEN k + 1
        ELSE IF sg < 0 THEN k
        ELSE IF k % 2 = 0 THEN k ELSE k + 1

\* progress_percent is kept in tenths of a percent
calculate_xp_progress(xp) ==
    LET current_level == calculate_level(xp)
        current_level_xp == calculate_xp_for_level(current_level)
        next_level_xp == calculate_xp_for_level(current_level + 1)
        xp_in_current_level == xp - current_level_xp
        xp_needed_for_next == next_level_xp - current_level_xp
    IN  [level |-> current_level,
         total_xp |-> xp,
         xp_in_current_level |-> xp_in_current_level,
         xp_needed_for_next |-> xp_needed_for_next,
         progress_percent |-> IF xp_needed_for_next > 0
                              THEN PercentTenths(xp_in_current_level, xp_needed_for_next)
                              ELSE 0]

\* self._daily_stats.get(date_str, DailyStats(date=date_str))
GetStats(ds, date) ==
    IF HasKey(ds, date) THEN ds[IndexOf(ds, date)] ELSE DailyStats(date)

\* the romanised day names of get_weekly_stats, Monday first
DayNames == <<"getsu", "ka", "sui", "moku", "kin", "do", "nichi">>

\* faulty variant: the totals take every day of the week
WeekTotal_all_days(ds, week_start, t, i, f) ==
    LET Sum[j \in 0..7] ==
            IF j = 7 THEN 0
            ELSE GetStats(ds, IsoFormat(week_start + j))[f] + Sum[j + 1]
    IN  Sum[i]

\* what the loop of get_weekly_stats adds to a total from day i of the week on
WeekTotal(ds, week_start, t, i, f) ==
    LET Sum[j \in 0..7] ==
            IF j = 7 THEN 0
            ELSE (IF week_start + j <= t
                  THEN GetStats(ds, IsoFormat(week_start + j))[f] ELSE 0)
                 + Sum[j + 1]
    IN  Sum[i]

\* the averages are in tenths
get_weekly_stats(ds, date) ==
    LET t == ParseDate(date)
        week_start == t - Weekday(t)
        daily_data ==
            [i \in 1..7 |->
                LET date_str == IsoFormat(week_start + i - 1)
                    stats == GetStats(ds, date_str)
                IN  [date |-> date_str,
                     day_name |-> DayNames[i],
                     completed_pomodoros |-> stats.completed_pomodoros,
                     focus_minutes |-> stats.total_focus_seconds \div 60]]
        total_pomodoros == WeekTotal(ds, week_start, t, 0, "completed_pomodoros")
        focus_seconds == WeekTotal(ds, week_start, t, 0, "total_focus_seconds")
        days_passed == Weekday(t) + 1
    IN  [week_start |-> IsoFormat(week_start),
         daily_data |-> daily_data,
         total_pomodoros |-> total_pomodoros,
         total_focus_minutes |-> focus_seconds \div 60,
         avg_pomodoros_per_day |->
             IF days_passed > 0 THEN RoundTenths(total_pomodoros, days_passed) ELSE 0,
         avg_focus_minutes_per_day |->
             IF days_passed > 0 THEN RoundTenths(focus_seconds, 60 * days_passed) ELSE 0]

\* faulty variant: entries dated after today are taken too
RECURSIVE MonthTotal_no_upper(_, _, _, _, _)
MonthTotal_no_upper(ds, i, month_start, t, f) ==
    IF i > Len(ds) THEN 0
    ELSE LET d == ParseDate(ds[i].date)
         IN  (IF d >= month_start THEN ds[i][f] ELSE 0)
             + MonthTotal_no_upper(ds, i + 1, month_start, t, f)

\* the loop of get_monthly_stats over the day map: the sum of field f over the
\* entries dated month_start..t
RECURSIVE MonthTotal(_, _, _, _, _)
MonthTotal(ds, i, month_start, t, f) ==
    IF i > Len(ds) THEN 0
    ELSE LET d == ParseDate(ds[i].date)
         IN  (IF d >= month_start /\ d <= t THEN ds[i][f] ELSE 0)
             + MonthTotal(ds, i + 1, month_start, t, f)

RECURSIVE ActiveDays(_, _, _, _)
ActiveDays(ds, i, month_start, t) ==
    IF i > Len(ds) THEN 0
    ELSE LET d == ParseDate(ds[i].date)
         IN  (IF d >= month_start /\ d <= t /\ ds[i].completed_pomodoros > 0
              THEN 1 ELSE 0)
             + ActiveDays(ds, i + 1, month_start, t)

\* faulty variant: December is followed by January of the same year
NextMonth_same_year(date) ==
    IF date[2] = 12 THEN <<date[1], 1, 1>> ELSE <<date[1], date[2] + 1, 1>>

\* the first day of the next month: today.replace(year=today.year + 1,
\* month=1, day=1) in December, today.replace(month=today.month + 1, day=1)
\* otherwise
NextMonth(date) ==
    IF date[2] = 12 THEN <<date[1] + 1, 1, 1>> ELSE <<date[1], date[2] + 1, 1>>

\* completion_rate is in tenths; month is the pair <<year, month>>
get_monthly_stats(ds, date) ==
    LET t == ParseDate(date)
        month_start == MonthStart(date)
        next_month == NextMonth(date)
        days_in_month == ParseDate(next_month) - month_start
        focus_seconds == MonthTotal(ds, 1, month_start, t, "total_focus_seconds")
        active_days == ActiveDays(ds, 1, month_start, t)
        days_passed == (t - month_start) + 1
    IN  [month |-> <<date[1], date[2]>>,
         total_pomodoros |-> MonthTotal(ds, 1, month_start, t, "completed_pomodoros"),
         total_focus_minutes |-> focus_seconds \div 60,
         active_days |-> active_days,
         days_passed |-> days_passed,
         days_in_month |-> days_in_month,
         completion_rate |->
             IF days_passed > 0 THEN RoundTenths(active_days * 100, days_passed) ELSE 0]

to_dict(st, date) ==
    [level |-> calculate_level(st.total_xp),
     total_xp |-> st.total_xp,
     xp_progress |-> calculate_xp_progress(st.total_xp),
     streak_days |-> streak_days(st.daily_stats, date),
     badges |-> st.badges,
     total_focus_seconds |-> st.total_focus_seconds,
     weekly_stats |-> get_weekly_stats(st.daily_stats, date),
     monthly_stats |-> get_monthly_stats(st.daily_stats, date)]

\* --------------------------------------------- the tracker and its queries
\* focus_seconds values of the sessions before a query: nothing, a minute and
\* a half, the 25 minutes of the tests and the first-session level-5 value
QueryFocus == {0, 90, 1500, 38220}

\* the dates the date provider returns to a query: the window of the sessions,
\* the Monday before it, the Sunday after it and the Monday of the next week
QueryDates == DateDomain \cup {<<2025, 12, 29>>, <<2026, 1, 4>>, <<2026, 1, 5>>}

RecordQuery ==
    /\ probe = NoProbe
    /\ calls < MaxQueryCalls
    /\ \E date \in DateDomain, focus_seconds \in QueryFocus :
           RecordPomodoro(date, focus_seconds)

\* a query puts its name, the date provider's answer and what it returned into
\* probe, and assigns no field of the tracker
Level ==
    /\ probe = NoProbe
    /\ probe' = [fn |-> "level", res |-> calculate_level(total_xp)]
    /\ UNCHANGED tracker

GetXpProgress ==
    /\ probe = NoProbe
    /\ probe' = [fn |-> "get_xp_progress", res |-> calculate_xp_progress(total_xp)]
    /\ UNCHANGED tracker

ToDict ==
    /\ probe = NoProbe
    /\ \E date \in QueryDates :
           probe' = [fn |-> "to_dict", today |-> date, res |-> to_dict(Self, date)]
    /\ UNCHANGED tracker

GetWeeklyStats ==
    /\ probe = NoProbe
    /\ \E date \in QueryDates :
           probe' = [fn |-> "get_weekly_stats", today |-> date,
                     res |-> get_weekly_stats(daily_stats, date)]
    /\ UNCHANGED tracker

GetMonthlyStats ==
    /\ probe = NoProbe
    /\ \E date \in QueryDates :
           probe' = [fn |-> "get_monthly_stats", today |-> date,
                     res |-> get_monthly_stats(daily_stats, date)]
    /\ UNCHANGED tracker

NextQuery ==
    \/ RecordQuery
    \/ Level
    \/ GetXpProgress
    \/ ToDict
    \/ GetWeeklyStats
    \/ GetMonthlyStats

SpecQuery == Init /\ [][NextQuery]_vars

\* C15: the level returned by record_pomodoro, by the level property, by
\* get_xp_progress and by to_dict (level and xp_progress.level) is
\* calculate_level of the tracker's total XP at that moment.
C15_ReportedLevelIsDerived ==
    /\ calls >= 1 =>
           result.level = calculate_level(total_xp) /\ result.total_xp = total_xp
    /\ probe.fn = "level" => probe.res = calculate_level(total_xp)
    /\ probe.fn = "get_xp_progress" => probe.res.level = calculate_level(total_xp)
    /\ probe.fn = "to_dict" =>
           /\ probe.res.level = calculate_level(total_xp)
           /\ probe.res.xp_progress.level = calculate_level(total_xp)
           /\ probe.res.total_xp = total_xp

\* a snapshot taken after two sessions, the second of which raised the level
C15_Witness ==
    /\ calls = 2
    /\ result.xp_earned > 0
    /\ calculate_level(total_xp - result.xp_earned) < result.level
    /\ probe.fn = "to_dict"
    /\ probe.res.level = result.level

\* C16: in every step of the tracker, every entry of the day map is still
\* there under its date with no field smaller than before; a record_pomodoro
\* call changes or adds only the entry of that call's date, and a query
\* changes nothing.
C16_DayStatsOnlyGrow ==
    [][/\ \A i \in DOMAIN daily_stats :
              LET old == daily_stats[i]
                  new == GetStats(daily_stats', old.date)
              IN  /\ HasKey(daily_stats', old.date)
                  /\ new.completed_pomodoros >= old.completed_pomodoros
                  /\ new.total_focus_seconds >= old.total_focus_seconds
                  /\ new.xp_earned >= old.xp_earned
                  /\ old.date # today' => new = old
       /\ \A j \in DOMAIN daily_stats' :
              daily_stats'[j].date # today' =>
                  \E i \in DOMAIN daily_stats : daily_stats[i] = daily_stats'[j]
       /\ calls' = calls => daily_stats' = daily_stats]_vars

\* a second session, on another date than the first, that earned XP
C16_Witness ==
    /\ calls = 2
    /\ Len(daily_stats) = 2
    /\ daily_stats[1].date # today
    /\ daily_stats[1].xp_earned > 0
    /\ daily_stats[2].xp_earned > 0
    /\ probe.fn = "get_weekly_stats"

\* the result of the last get_weekly_stats call, also when to_dict made it
WeeklyResult ==
    IF probe.fn = "to_dict" THEN probe.res.weekly_stats ELSE probe.res

IsWeeklyQuery == probe.fn \in {"get_weekly_stats", "to_dict"}

\* C19: get_weekly_stats returns exactly 7 daily entries, for the consecutive
\* dates Monday..Sunday of the week that contains today, in that order; the
\* entry of a date reports that date's sessions and floor(focus-seconds / 60),
\* and 0 and 0 for a date without a DayStat.
C19_WeeklySevenEntries ==
    IsWeeklyQuery =>
        LET data == WeeklyResult.daily_data
            t == ParseDate(probe.today)
        IN  /\ Len(data) = 7
            /\ ParseDate(data[1].date) % 7 = 1    \* ordinal 1 is a Monday
            /\ ParseDate(data[1].date) <= t /\ t <= ParseDate(data[7].date)
            /\ WeeklyResult.week_start = data[1].date
            /\ \A i \in 1..7 :
                   /\ ParseDate(data[i].date) = ParseDate(data[1].date) + (i - 1)
                   /\ data[i].date[3] \in 1..DaysInMonth(data[i].date[1], data[i].date[2])
                   /\ data[i].date[2] \in 1..12
                   /\ data[i].day_name = DayNames[i]
                   /\ IF HasKey(daily_stats, data[i].date)
                      THEN LET st == daily_stats[IndexOf(daily_stats, data[i].date)]
                           IN  /\ data[i].completed_pomodoros = st.completed_pomodoros
                               /\ 60 * data[i].focus_minutes <= st.total_focus_seconds
                               /\ st.total_focus_seconds < 60 * (data[i].focus_minutes + 1)
                      ELSE data[i].completed_pomodoros = 0 /\ data[i].focus_minutes = 0

\* a week that crosses the year's end with sessions on two of its days
C19_Witness ==
    /\ probe.fn = "get_weekly_stats"
    /\ probe.today = <<2026, 1, 4>>
    /\ Len(daily_stats) = 2
    /\ probe.res.daily_data[1].date = <<2025, 12, 29>>
    /\ probe.res.daily_data[1].completed_pomodoros = 0
    /\ probe.res.daily_data[3].completed_pomodoros = 1
    /\ probe.res.daily_data[4].focus_minutes = 1

\* the sum of field f over the DayStats dated lo..hi (ordinals)
SumInRange(ds, lo, hi, f) ==
    LET Sum[i \in 0..Len(ds)] ==
            IF i = 0 THEN 0
            ELSE Sum[i - 1]
                 + (IF lo <= ParseDate(ds[i].date) /\ ParseDate(ds[i].date) <= hi
                    THEN ds[i][f] ELSE 0)
    IN  Sum[Len(ds)]

Abs(x) == IF x < 0 THEN 0 - x ELSE x

\* tenths is a nearest tenth of n / d
NearestTenth(tenths, n, d) == 2 * Abs(10 * n - tenths * d) <= d

\* the totals of the weekly result: sessions and focus-seconds of the DayStats
\* dated Monday..today, floor minutes, and the divisor weekday index + 1
WeeklyTotalsAreMondayToToday ==
    LET t == ParseDate(probe.today)
        monday == t - ((t - 1) % 7)
        sessions == SumInRange(daily_stats, monday, t, "completed_pomodoros")
        seconds == SumInRange(daily_stats, monday, t, "total_focus_seconds")
        days == t - monday + 1
        w == WeeklyResult
    IN  /\ w.total_pomodoros = sessions
        /\ 60 * w.total_focus_minutes <= seconds
        /\ seconds < 60 * (w.total_focus_minutes + 1)
        /\ days \in 1..7
        /\ NearestTenth(w.avg_pomodoros_per_day, sessions, days)

\* C20 as stated: the totals take Monday..today only, total_focus_minutes is
\* the floor of the summed seconds / 60, and both averages are the totals
\* (total_pomodoros, total_focus_minutes) divided by weekday index + 1.
C20_AveragesDivideTotals ==
    IsWeeklyQuery =>
        /\ WeeklyTotalsAreMondayToToday
        /\ NearestTenth(WeeklyResult.avg_focus_minutes_per_day,
                        WeeklyResult.total_focus_minutes,
                        Weekday(ParseDate(probe.today)) + 1)

\* C20, amended: as above, but avg_focus_minutes_per_day is the summed
\* focus-seconds / 60, not floored, divided by weekday index + 1 (both
\* averages rounded to one decimal).
C20_AveragesDivideSums ==
    IsWeeklyQuery =>
        LET t == ParseDate(probe.today)
            monday == t - ((t - 1) % 7)
            seconds == SumInRange(daily_stats, monday, t, "total_focus_seconds")
        IN  /\ WeeklyTotalsAreMondayToToday
            /\ NearestTenth(WeeklyResult.avg_focus_minutes_per_day,
                            seconds, 60 * (t - monday + 1))

\* on Tuesday, one session of 90 seconds today and one stored under Wednesday
C20_Witness ==
    /\ probe.fn = "get_weekly_stats"
    /\ probe.today = <<2025, 12, 30>>
    /\ HasKey(daily_stats, <<2025, 12, 31>>)
    /\ probe.res.daily_data[3].completed_pomodoros = 1
    /\ probe.res.total_pomodoros = 1
    /\ probe.res.total_focus_minutes = 1
    /\ probe.res.avg_pomodoros_per_day = 5
    /\ probe.res.avg_focus_minutes_per_day = 8

\* ------------------------------------------------------ calls that raise
\* a date string datetime.strptime(s, "%Y-%m-%d") accepts
ValidDate(s) == s[2] \in 1..12 /\ s[3] \in 1..DaysInMonth(s[1], s[2])

\* the date provider's answers: those of DateDomain and the malformed
\* "2025-12-00"
ErrDates == DateDomain \cup {<<2025, 12, 0>>}

\* focus_seconds values of the calls that pass an integer
ErrFocus == {0, 1500}

\* the loop of calculate_streak from index i on parses without a ValueError
RECURSIVE LoopParses(_, _)
LoopParses(unique_dates, i) ==
    IF i > Len(unique_dates) - 1 THEN TRUE
    ELSE /\ ValidDate(unique_dates[i])
         /\ ValidDate(unique_dates[i + 1])
         /\ (ParseDate(unique_dates[i]) - ParseDate(unique_dates[i + 1]) = 1
                 => LoopParses(unique_dates, i + 1))

\* calculate_streak(dates, date) returns: none of its strptime calls raises
StreakParses(dates, date) ==
    IF Len(dates) = 0 THEN TRUE
    ELSE LET unique_dates == SortedDesc(ToSet(dates))
         IN  /\ ValidDate(date)
             /\ ValidDate(unique_dates[1])
             /\ (ParseDate(date) - ParseDate(unique_dates[1]) > 1
                     \/ LoopParses(unique_dates, 1))

\* _get_weekly_pomodoros and _get_monthly_pomodoros parse every key
CountsParse(ds) == \A i \in DOMAIN ds : ValidDate(ds[i].date)

\* the badge list when _check_badges raises in _get_weekly_pomodoros: the
\* first_pomodoro and streak rules have run
check_badges_until_weekly(bs, ds, date) ==
    LET total_pomodoros == SumField(ds, 1, "completed_pomodoros")
        b0  == [badges |-> bs, new_badges |-> <<>>]
        b1  == Rule(b0, total_pomodoros >= 1, "first_pomodoro", date)
        streak == streak_days(ds, date)
        b2  == Rule(b1, streak >= 3, "streak_3", date)
        b3  == Rule(b2, streak >= 7, "streak_7", date)
    IN  Rule(b3, streak >= 30, "streak_30", date).badges

\* probe counts the calls that raised and names the last exception
InitErr ==
    /\ total_xp = 0
    /\ total_focus_seconds = 0
    /\ badges = <<>>
    /\ daily_stats = <<>>
    /\ today = NoDate
    /\ last_focus = 0
    /\ streak_dates = <<>>
    /\ result = NoResult
    /\ calls = 0
    /\ probe = [fn |-> "record_pomodoro", raised |-> 0, error |-> "none"]

\* a record_pomodoro call that raises in "streak = self.streak_days" or in
\* "xp_earned = calculate_pomodoro_xp(focus_seconds, streak)": the statements
\* before it have run, "stats = self._get_or_create_daily_stats(today)" among
\* them, and nothing is returned
Raise(date, error) ==
    /\ daily_stats' = get_or_create_daily_stats(daily_stats, date)
    /\ today' = date
    /\ calls' = calls + 1
    /\ probe' = [probe EXCEPT !.raised = @ + 1, !.error = error]
    /\ UNCHANGED <<total_xp, total_focus_seconds, badges, last_focus,
                   streak_dates, result>>

\* a record_pomodoro call that raises in "new_badges = self._check_badges()":
\* the totals and today's DayStat are updated and the rules before the weekly
\* count have run
RaiseInCheckBadges(date, focus_seconds) ==
    \E after \in {record_pomodoro(Self, date, focus_seconds)} :
        /\ total_xp' = after.total_xp
        /\ total_focus_seconds' = after.total_focus_seconds
        /\ daily_stats' = after.daily_stats
        /\ badges' = check_badges_until_weekly(badges, after.daily_stats, date)
        /\ today' = date
        /\ last_focus' = focus_seconds
        /\ streak_dates' = after.streak_dates
        /\ calls' = calls + 1
        /\ probe' = [probe EXCEPT !.raised = @ + 1, !.error = "ValueError"]
        /\ UNCHANGED result

\* record_pomodoro with an integer: datetime.strptime raises ValueError where
\* it meets a malformed date, today's or a key of the day map
RecordErr ==
    /\ calls < MaxErrCalls
    /\ \E date \in ErrDates, focus_seconds \in ErrFocus :
           IF ~StreakParses(Keys(get_or_create_daily_stats(daily_stats, date)), date)
           THEN Raise(date, "ValueError")
           ELSE IF ~CountsParse(daily_stats)
           THEN RaiseInCheckBadges(date, focus_seconds)
           ELSE RecordPomodoro(date, focus_seconds)

\* record_pomodoro with a str or None ("focus_seconds // 60" raises TypeError)
\* or with the float inf of a JSON body ("int(nan)" raises ValueError), when
\* the streak before it has not raised
RecordNotAnInt ==
    /\ calls < MaxErrCalls
    /\ \E date \in ErrDates, error \in {"TypeError", "ValueError"} :
           IF ~StreakParses(Keys(get_or_create_daily_stats(daily_stats, date)), date)
           THEN Raise(date, "ValueError")
           ELSE Raise(date, error)

NextErr == RecordErr \/ RecordNotAnInt

SpecErr == InitErr /\ [][NextErr]_vars

\* C17: a record_pomodoro call that raises leaves total XP, total
\* focus-seconds, the badge list and the day map, key set included, as they
\* were before the call.
C17_FailedCallChangesNothing ==
    [][probe'.raised # probe.raised =>
           UNCHANGED <<total_xp, total_focus_seconds, badges, daily_stats>>]_vars

\* ------------------------------------- two request threads, one tracker
\* app.py keeps one module-level GamificationTracker and the server handles
\* requests in threads; no lock is taken.  A thread runs record_pomodoro one
\* statement at a time: probe.pc[t] is the line of the statement thread t
\* runs next ("idle" outside a call) and probe.loc[t] holds its locals.
Threads == {"t1", "t2"}

ConcDates == {FirstDay}

ConcFocus == {0, 1500}

\* the locals of record_pomodoro and of _check_badges.  stats is a reference:
\* it is the DayStat stored under today in the day map unless orphan is TRUE,
\* when it is the object obj that another thread's insert has replaced.
NoLocals ==
    [today |-> NoDate, focus |-> 0, orphan |-> FALSE, obj |-> DailyStats(NoDate),
     streak |-> 0, xp_earned |-> 0, total_pomodoros |-> 0, cb_streak |-> 0,
     weekly_count |-> 0, monthly_count |-> 0, level |-> 0, new_badges |-> <<>>]

InitConc ==
    /\ total_xp = 0
    /\ total_focus_seconds = 0
    /\ badges = <<>>
    /\ daily_stats = <<>>
    /\ today = NoDate
    /\ last_focus = 0
    /\ streak_dates = <<>>
    /\ result = NoResult
    /\ calls = 0
    /\ probe = [fn |-> "threads",
                pc |-> [t \in Threads |-> "idle"],
                loc |-> [t \in Threads |-> NoLocals],
                overlapped |-> FALSE]

Pc(t) == probe.pc[t]

Loc(t) == probe.loc[t]

\* thread t goes on to line with locals loc
Goto(t, line, loc) == probe' = [probe EXCEPT !.pc[t] = line, !.loc[t] = loc]

\* the lines at which the local stats is live
HoldsStats == {"l316", "l319", "l320", "l321", "l324", "l325", "l326"}

\* a request thread enters record_pomodoro: "today = self._get_today()"
Call(t) ==
    /\ Pc(t) = "idle"
    /\ calls < MaxConcCalls
    /\ \E date \in ConcDates, focus_seconds \in ConcFocus :
           /\ probe' = [probe EXCEPT
                  !.pc[t] = "l299",
                  !.loc[t] = [NoLocals EXCEPT !.today = date, !.focus = focus_seconds],
                  !.overlapped = @ \/ \E u \in Threads \ {t} : Pc(u) # "idle"]
           /\ today' = date
           /\ last_focus' = focus_seconds
    /\ calls' = calls + 1
    /\ UNCHANGED <<total_xp, total_focus_seconds, badges, daily_stats,
                   streak_dates, result>>

\* _get_or_create_daily_stats, "if date_str not in self._daily_stats:"
L299(t) ==
    /\ Pc(t) = "l299"
    /\ Goto(t, IF HasKey(daily_stats, Loc(t).today) THEN "l301" ELSE "l300", Loc(t))
    /\ UNCHANGED tracker

\* "self._daily_stats[date_str] = DailyStats(date=date_str)": a new object; an
\* object already stored under the key is replaced and stays with the threads
\* that hold it
L300(t) ==
    /\ Pc(t) = "l300"
    /\ LET date == Loc(t).today
       IN  IF HasKey(daily_stats, date)
           THEN LET k == IndexOf(daily_stats, date)
                    old == daily_stats[k]
                IN  /\ daily_stats' = [daily_stats EXCEPT ![k] = DailyStats(date)]
                    /\ probe' = [probe EXCEPT
                           !.pc[t] = "l301",
                           !.loc = [u \in Threads |->
                                       IF /\ u # t
                                          /\ Pc(u) \in HoldsStats
                                          /\ Loc(u).today = date
                                          /\ ~Loc(u).orphan
                                       THEN [Loc(u) EXCEPT !.orphan = TRUE, !.obj = old]
                                       ELSE Loc(u)]]
           ELSE /\ daily_stats' = Append(daily_stats, DailyStats(date))
                /\ Goto(t, "l301", Loc(t))
    /\ UNCHANGED <<total_xp, total_focus_seconds, badges, today, last_focus,
                   streak_dates, result, calls>>

\* "return self._daily_stats[date_str]", bound to stats in record_pomodoro
L301(t) ==
    /\ Pc(t) = "l301"
    /\ Goto(t, "l316", Loc(t))
    /\ UNCHANGED tracker

\* "streak = self.streak_days"
L316(t) ==
    /\ Pc(t) = "l316"
    /\ Goto(t, "l319", [Loc(t) EXCEPT !.streak = streak_days(daily_stats, Loc(t).today)])
    /\ streak_dates' = Keys(daily_stats)
    /\ UNCHANGED <<total_xp, total_focus_seconds, badges, daily_stats, today,
                   last_focus, result, calls>>

\* "xp_earned = calculate_pomodoro_xp(focus_seconds, streak)"
L319(t) ==
    /\ Pc(t) = "l319"
    /\ Goto(t, "l320",
            [Loc(t) EXCEPT !.xp_earned = calculate_pomodoro_xp(Loc(t).focus, Loc(t).streak)])
    /\ UNCHANGED tracker

\* "self._total_xp += xp_earned"
L320(t) ==
    /\ Pc(t) = "l320"
    /\ total_xp' = AddTo(total_xp, Loc(t).xp_earned)
    /\ Goto(t, "l321", Loc(t))
    /\ UNCHANGED <<total_focus_seconds, badges, daily_stats, today, last_focus,
                   streak_dates, result, calls>>

\* "self._total_focus_seconds += focus_seconds"
L321(t) ==
    /\ Pc(t) = "l321"
    /\ total_focus_seconds' = AddTo(total_focus_seconds, Loc(t).focus)
    /\ Goto(t, "l324", Loc(t))
    /\ UNCHANGED <<total_xp, badges, daily_stats, today, last_focus,
                   streak_dates, result, calls>>

\* "stats.completed_pomodoros += 1", "stats.total_focus_seconds +=
\* focus_seconds", "stats.xp_earned += xp_earned", on the object stats refers to
StatLines ==
    <<[line |-> "l324", field |-> "completed_pomodoros", next |-> "l325"],
      [line |-> "l325", field |-> "total_focus_seconds", next |-> "l326"],
      [line |-> "l326", field |-> "xp_earned", next |-> "l355"]>>

StatAmount(t, field) ==
    IF field = "completed_pomodoros" THEN 1
    ELSE IF field = "total_focus_seconds" THEN Loc(t).focus
    ELSE Loc(t).xp_earned

L324to326(t) ==
    \E i \in DOMAIN StatLines :
        LET stmt == StatLines[i]
            amount == StatAmount(t, stmt.field)
        IN  /\ Pc(t) = stmt.line
            /\ IF Loc(t).orphan
               THEN /\ Goto(t, stmt.next,
                            [Loc(t) EXCEPT !.obj[stmt.field] = AddTo(@, amount)])
                    /\ UNCHANGED daily_stats
               ELSE /\ daily_stats' =
                           [daily_stats EXCEPT
                               ![IndexOf(daily_stats, Loc(t).today)][stmt.field] =
                                   AddTo(@, amount)]
                    /\ Goto(t, stmt.next, Loc(t))
            /\ UNCHANGED <<total_xp, total_focus_seconds, badges, today,
                           last_focus, streak_dates, result, calls>>

\* _check_badges, "if not self._has_badge(BadgeType.FIRST_POMODORO):"
L355(t) ==
    /\ Pc(t) = "l355"
    /\ Goto(t, IF ~has_badge(badges, "first_pomodoro") THEN "l356" ELSE "l361", Loc(t))
    /\ UNCHANGED tracker

\* "total_pomodoros = sum(...)"
L356(t) ==
    /\ Pc(t) = "l356"
    /\ Goto(t, "l357",
            [Loc(t) EXCEPT !.total_pomodoros =
                               SumField(daily_stats, 1, "completed_pomodoros")])
    /\ UNCHANGED tracker

\* "if total_pomodoros >= 1:"
L357(t) ==
    /\ Pc(t) = "l357"
    /\ Goto(t, IF Loc(t).total_pomodoros >= 1 THEN "l358" ELSE "l361", Loc(t))
    /\ UNCHANGED tracker

\* "streak = self.streak_days", "weekly_count = self._get_weekly_pomodoros()",
\* "monthly_count = self._get_monthly_pomodoros()", "level = self.level"
LoadLines(t) ==
    <<[line |-> "l361", var |-> "cb_streak", next |-> "l362",
       val |-> streak_days(daily_stats, Loc(t).today)],
      [line |-> "l370", var |-> "weekly_count", next |-> "l371",
       val |-> get_weekly_pomodoros(daily_stats, Loc(t).today)],
      [line |-> "l377", var |-> "monthly_count", next |-> "l378",
       val |-> get_monthly_pomodoros(daily_stats, Loc(t).today)],
      [line |-> "l384", var |-> "level", next |-> "l385",
       val |-> calculate_level(total_xp)]>>

Load(t) ==
    /\ \E i \in 1..4 :
           LET stmt == LoadLines(t)[i]
           IN  /\ Pc(t) = stmt.line
               /\ Goto(t, stmt.next, [Loc(t) EXCEPT ![stmt.var] = stmt.val])
    /\ UNCHANGED tracker

\* "if <var> >= <min> and not self._has_badge(<kind>):", to the award line or
\* past it
TestLines ==
    <<[line |-> "l362", var |-> "cb_streak", min |-> 3, kind |-> "streak_3",
       award |-> "l363", next |-> "l364"],
      [line |-> "l364", var |-> "cb_streak", min |-> 7, kind |-> "streak_7",
       award |-> "l365", next |-> "l366"],
      [line |-> "l366", var |-> "cb_streak", min |-> 30, kind |-> "streak_30",
       award |-> "l367", next |-> "l370"],
      [line |-> "l371", var |-> "weekly_count", min |-> 10, kind |-> "weekly_10",
       award |-> "l372", next |-> "l373"],
      [line |-> "l373", var |-> "weekly_count", min |-> 25, kind |-> "weekly_25",
       award |-> "l374", next |-> "l377"],
      [line |-> "l378", var |-> "monthly_count", min |-> 50, kind |-> "monthly_50",
       award |-> "l379", next |-> "l380"],
      [line |-> "l380", var |-> "monthly_count", min |-> 100, kind |-> "monthly_100",
       award |-> "l381", next |-> "l384"],
      [line |-> "l385", var |-> "level", min |-> 5, kind |-> "level_5",
       award |-> "l386", next |-> "l387"],
      [line |-> "l387", var |-> "level", min |-> 10, kind |-> "level_10",
       award |-> "l388", next |-> "l391"],
      [line |-> "l391", var |-> "self._total_focus_seconds", min |-> 360000,
       kind |-> "focus_master", award |-> "l392", next |-> "l394"]>>

Test(t) ==
    /\ \E i \in DOMAIN TestLines :
           LET stmt == TestLines[i]
               val == IF stmt.var = "self._total_focus_seconds"
                      THEN total_focus_seconds ELSE Loc(t)[stmt.var]
           IN  /\ Pc(t) = stmt.line
               /\ Goto(t, IF val >= stmt.min /\ ~has_badge(badges, stmt.kind)
                          THEN stmt.award ELSE stmt.next, Loc(t))
    /\ UNCHANGED tracker

\* "new_badges.append(self._award_badge(<kind>))"
AwardLines ==
    <<[line |-> "l358", kind |-> "first_pomodoro", next |-> "l361"]>>
    \o [i \in DOMAIN TestLines |->
           [line |-> TestLines[i].award, kind |-> TestLines[i].kind,
            next |-> TestLines[i].next]]

Award(t) ==
    /\ \E i \in DOMAIN AwardLines :
           LET stmt == AwardLines[i]
           IN  /\ Pc(t) = stmt.line
               /\ badges' = award_badge(badges, stmt.kind, Loc(t).today)
               /\ Goto(t, stmt.next,
                       [Loc(t) EXCEPT !.new_badges =
                                          Append(@, Badge(stmt.kind, Loc(t).today))])
    /\ UNCHANGED <<total_xp, total_focus_seconds, daily_stats, today, last_focus,
                   streak_dates, result, calls>>

\* "return new_badges" and the "return {...}" of record_pomodoro
L394(t) ==
    /\ Pc(t) = "l394"
    /\ result' = [xp_earned |-> Loc(t).xp_earned,
                  total_xp |-> total_xp,
                  level |-> calculate_level(total_xp),
                  new_badges |-> Loc(t).new_badges,
                  streak_days |-> streak_days(daily_stats, Loc(t).today)]
    /\ Goto(t, "idle", NoLocals)
    /\ UNCHANGED <<total_xp, total_focus_seconds, badges, daily_stats, today,
                   last_focus, streak_dates, calls>>

NextConc ==
    \E t \in Threads :
        \/ Call(t)
        \/ L299(t)
        \/ L300(t)
        \/ L301(t)
        \/ L316(t)
        \/ L319(t)
        \/ L320(t)
        \/ L321(t)
        \/ L324to326(t)
        \/ L355(t)
        \/ L356(t)
        \/ L357(t)
        \/ Load(t)
        \/ Test(t)
        \/ Award(t)
        \/ L394(t)

SpecConc == InitConc /\ [][NextConc]_vars

AllIdle == \A t \in Threads : Pc(t) = "idle"

SumsAndBadgesSound ==
    /\ total_xp = SumField(daily_stats, 1, "xp_earned")
    /\ total_focus_seconds = SumField(daily_stats, 1, "total_focus_seconds")
    /\ \A i, j \in DOMAIN badges : badges[i].badge_type = badges[j].badge_type => i = j

\* C18: two record_pomodoro calls that interleave statement by statement can
\* end with total XP different from the sum of the DayStats' XP and with a
\* badge kind twice in the badge list (C18_Witness is such a state); while no
\* call has started during another, the totals are the sums and no kind is
\* twice whenever no call is running.
C18_SoundUnlessOverlapped ==
    (AllIdle /\ ~probe.overlapped) => SumsAndBadgesSound

\* both calls have returned, after an overlap: the XP of one call is in no
\* DayStat and first_pomodoro is in the badge list twice
C18_Witness ==
    /\ AllIdle
    /\ calls = 2
    /\ probe.overlapped
    /\ total_xp # SumField(daily_stats, 1, "xp_earned")
    /\ Len(badges) = 2
    /\ badges[1].badge_type = badges[2].badge_type

\* the result of the last get_monthly_stats call, also when to_dict made it
MonthlyResult ==
    IF probe.fn = "to_dict" THEN probe.res.monthly_stats ELSE probe.res

IsMonthlyQuery == probe.fn \in {"get_monthly_stats", "to_dict"}

\* the DayStats dated lo..hi (ordinals) that have at least one session
ActiveInRange(ds, lo, hi) ==
    {i \in DOMAIN ds : /\ lo <= ParseDate(ds[i].date)
                       /\ ParseDate(ds[i].date) <= hi
                       /\ ds[i].completed_pomodoros >= 1}

\* C21: get_monthly_stats aggregates the DayStats dated from the first of
\* today's month through today only: total_pomodoros and the focus seconds
\* (reported as floor minutes) are their sums, active_days counts those with
\* at least one session, days_passed is today's day of the month,
\* completion_rate is active_days / days_passed * 100 rounded to one decimal;
\* active_days <= days_passed <= days_in_month and completion_rate <= 100.
C21_MonthlyWindowAndRate ==
    IsMonthlyQuery =>
        LET t == ParseDate(probe.today)
            first == t - probe.today[3] + 1
            seconds == SumInRange(daily_stats, first, t, "total_focus_seconds")
            m == MonthlyResult
        IN  /\ m.total_pomodoros = SumInRange(daily_stats, first, t, "completed_pomodoros")
            /\ 60 * m.total_focus_minutes <= seconds
            /\ seconds < 60 * (m.total_focus_minutes + 1)
            /\ m.active_days = Cardinality(ActiveInRange(daily_stats, first, t))
            /\ m.days_passed = probe.today[3]
            /\ NearestTenth(m.completion_rate, m.active_days * 100, m.days_passed)
            /\ m.active_days <= m.days_passed
            /\ m.days_passed <= m.days_in_month
            /\ m.completion_rate <= 1000

\* on the 5th of January, sessions on the 1st and on a day of December:
\* 1 active day of 5, 20.0 percent
C21_Witness ==
    /\ probe.fn = "get_monthly_stats"
    /\ probe.today = <<2026, 1, 5>>
    /\ Len(daily_stats) = 2
    /\ probe.res.total_pomodoros = 1
    /\ probe.res.active_days = 1
    /\ probe.res.days_passed = 5
    /\ probe.res.completion_rate = 200

\* ------------------------------------------- get_monthly_stats on any date
\* the years of the dates: century years that are and are not leap years, a
\* leap year and the years around it
ProbeYears == {1900, 2000, 2023, 2024, 2025, 2100}

\* the first, the 15th and the last day of every month of ProbeYears
MonthProbeDates ==
    {<<y, m, d>> : y \in ProbeYears, m \in 1..12, d \in {1, 15}}
    \cup {<<y, m, DaysInMonth(y, m)>> : y \in ProbeYears, m \in 1..12}

\* get_monthly_stats of a fresh tracker when the date provider returns date
ProbeMonthlyStats ==
    /\ probe = NoProbe
    /\ \E date \in MonthProbeDates :
           probe' = [fn |-> "get_monthly_stats", today |-> date,
                     res |-> get_monthly_stats(daily_stats, date)]
    /\ UNCHANGED tracker

NextMonthly == ProbeMonthlyStats

SpecMonthly == Init /\ [][NextMonthly]_vars

\* the number of days of month m of year y in the Gregorian calendar
CalendarDays(y, m) ==
    IF m \in {1, 3, 5, 7, 8, 10, 12} THEN 31
    ELSE IF m \in {4, 6, 9, 11} THEN 30
    ELSE IF (y % 4 = 0 /\ y % 100 # 0) \/ y % 400 = 0 THEN 29
    ELSE 28

\* C22: days_in_month is the number of days of today's calendar month, for
\* every date: 31 for December (the next month is January of the next year),
\* 29 for February of a leap year and 28 otherwise.
C22_DaysInMonthIsCalendar ==
    probe.fn = "get_monthly_stats" =>
        /\ probe.res.days_in_month = CalendarDays(probe.today[1], probe.today[2])
        /\ probe.res.days_passed = probe.today[3]
        /\ probe.res.month = <<probe.today[1], probe.today[2]>>

\* the last day of a December
C22_Witness ==
    /\ probe.fn = "get_monthly_stats"
    /\ probe.today = <<2025, 12, 31>>
    /\ probe.res.days_in_month = 31
    /\ probe.res.days_passed = 31


\* ------------------------------------------ calls of calculate_xp_progress
\* the XP around the first levels whose span reaches 2000
HighXp == (calculate_xp_for_level(39) - 10)..(calculate_xp_for_level(41) + 10)

ProbeXpProgress ==
    /\ probe = NoProbe
    /\ \E xp \in (0..MaxProbeXp) \cup HighXp :
           probe' = [fn |-> "calculate_xp_progress", arg |-> xp,
                     res |-> calculate_xp_progress(xp)]
    /\ UNCHANGED tracker

NextXpProgress == ProbeXpProgress

SpecXpProgress == Init /\ [][NextXpProgress]_vars

\* level, XP inside the level and span of the level of a calculate_xp_progress
\* result, against the staircase T
XpProgressShape ==
    LET xp == probe.arg
        p == probe.res
    IN  /\ p.level >= 1
        /\ Threshold(p.level) <= xp /\ xp < Threshold(p.level + 1)
        /\ p.total_xp = xp
        /\ p.xp_in_current_level = xp - Threshold(p.level)
        /\ p.xp_needed_for_next = Threshold(p.level + 1) - Threshold(p.level)
        /\ p.xp_needed_for_next = 100 + 50 * (p.level - 1)
        /\ 0 <= p.xp_in_current_level
        /\ p.xp_in_current_level < p.xp_needed_for_next
        /\ (xp = Threshold(p.level) => p.xp_in_current_level = 0)

\* C23 as stated: for every xp >= 0 the result has level = calculate_level(xp),
\* xp_in_current_level = xp - T(level), xp_needed_for_next = 100 + 50*(level-1),
\* 0 <= xp_in_current_level < xp_needed_for_next, and progress_percent in
\* [0, 100).  Violated: the rounding to one decimal gives 100.0 at xp = 40949.
C23_PercentBelowHundred ==
    probe.fn = "calculate_xp_progress" =>
        /\ XpProgressShape
        /\ 0 <= probe.res.progress_percent
        /\ probe.res.progress_percent < 1000

\* C23 amended: the same level, XP inside the level and span, with
\* progress_percent the tenth nearest to the exact percentage, in [0, 100]:
\* it is 100.0 only when xp_in_current_level / xp_needed_for_next >= 0.9995,
\* which needs a span of at least 2000 (xp >= 40949), and below 100 before.
C23_PercentAtMostHundred ==
    probe.fn = "calculate_xp_progress" =>
        LET p == probe.res
        IN  /\ XpProgressShape
            /\ 0 <= p.progress_percent /\ p.progress_percent <= 1000
            /\ NearestTenth(p.progress_percent, 100 * p.xp_in_current_level,
                            p.xp_needed_for_next)
            /\ (p.progress_percent = 1000 =>
                    /\ 2000 * p.xp_in_current_level >= 1999 * p.xp_needed_for_next
                    /\ p.xp_needed_for_next >= 2000)
            /\ (probe.arg < 40949 => p.progress_percent < 1000)

C23_Witness ==
    /\ probe.fn = "calculate_xp_progress"
    /\ probe.arg = 40949
    /\ probe.res.level = 39
    /\ probe.res.xp_in_current_level = 1999
    /\ probe.res.progress_percent = 1000

\* ---------------------------------------------------- src/pomodoro/timer.py
\* A PomodoroTimer is a record held in probe: its config, _state,
\* _remaining_seconds, _start_time, _paused_remaining and
\* _completed_pomodoros, the reading "now" of its time provider, and the last
\* operation with its return value.  The time provider returns a float: the
\* clock is counted in half-seconds, so that int(elapsed) truncates.  It does
\* not run backwards.
MaxHalfSeconds == 10   \* the clock runs from 0 to this many half-seconds
MaxPomodoros == 4      \* complete_session is called while the count is below

None == 0 - 1          \* a _start_time or _paused_remaining that is None

TimerConfig(work, short, long, until) ==
    [work_duration |-> work, short_break_duration |-> short,
     long_break_duration |-> long, pomodoros_until_long_break |-> until]

DefaultTimerConfig == TimerConfig(25 * 60, 5 * 60, 15 * 60, 4)

\* the default configuration and one whose sessions end within the clock's run
TimerConfigs == {DefaultTimerConfig, TimerConfig(3, 1, 2, 2)}

PomodoroTimer(config) ==
    [fn |-> "timer", config |-> config, state |-> "idle",
     remaining |-> config.work_duration, start_time |-> None,
     paused_remaining |-> None, completed_pomodoros |-> 0,
     now |-> 0, op |-> "init", ret |-> "None"]

MaxInt(a, b) == IF a >= b THEN a ELSE b

\* the property remaining_seconds; now - start_time is in half-seconds and
\* never negative
remaining_seconds(t) ==
    IF t.start_time # None
    THEN MaxInt(0, t.paused_remaining - ((t.now - t.start_time) \div 2))
    ELSE t.remaining

is_running(t) == t.start_time # None

is_finished(t) == remaining_seconds(t) <= 0

\* the faulty variant that leaves IDLE as it is
start_keeps_idle(t) ==
    IF t.start_time # None
    THEN [t EXCEPT !.op = "start", !.ret = "False"]
    ELSE [t EXCEPT !.paused_remaining = t.remaining,
                   !.start_time = t.now,
                   !.op = "start", !.ret = "True"]

start(t) ==
    IF t.start_time # None
    THEN [t EXCEPT !.op = "start", !.ret = "False"]
    ELSE [t EXCEPT !.state = IF t.state = "idle" THEN "work" ELSE t.state,
                   !.paused_remaining = t.remaining,
                   !.start_time = t.now,
                   !.op = "start", !.ret = "True"]

\* the faulty variant that stores the remaining seconds of the start instant
stop_at_start_value(t) ==
    IF t.start_time = None
    THEN [t EXCEPT !.op = "stop", !.ret = "False"]
    ELSE [t EXCEPT !.remaining = t.paused_remaining,
                   !.start_time = None,
                   !.paused_remaining = None,
                   !.op = "stop", !.ret = "True"]

stop(t) ==
    IF t.start_time = None
    THEN [t EXCEPT !.op = "stop", !.ret = "False"]
    ELSE [t EXCEPT !.remaining = remaining_seconds(t),
                   !.start_time = None,
                   !.paused_remaining = None,
                   !.op = "stop", !.ret = "True"]

\* the faulty variant that also clears the count
reset_clears_count(t) ==
    [t EXCEPT !.state = "idle",
              !.remaining = t.config.work_duration,
              !.start_time = None,
              !.paused_remaining = None,
              !.completed_pomodoros = 0,
              !.op = "reset", !.ret = "None"]

reset(t) ==
    [t EXCEPT !.state = "idle",
              !.remaining = t.config.work_duration,
              !.start_time = None,
              !.paused_remaining = None,
              !.op = "reset", !.ret = "None"]

\* the faulty variant that tests the count before the increment
complete_session_old_count(t) ==
    LET stopped == [t EXCEPT !.start_time = None, !.paused_remaining = None,
                             !.op = "complete_session"]
        count == t.completed_pomodoros + 1
        after ==
            IF t.state = "work"
            THEN IF t.completed_pomodoros % t.config.pomodoros_until_long_break = 0
                 THEN [stopped EXCEPT !.completed_pomodoros = count,
                                      !.state = "long_break",
                                      !.remaining = t.config.long_break_duration]
                 ELSE [stopped EXCEPT !.completed_pomodoros = count,
                                      !.state = "short_break",
                                      !.remaining = t.config.short_break_duration]
            ELSE [stopped EXCEPT !.state = "work",
                                 !.remaining = t.config.work_duration]
    IN  [after EXCEPT !.ret = after.state]

complete_session(t) ==
    LET stopped == [t EXCEPT !.start_time = None, !.paused_remaining = None,
                             !.op = "complete_session"]
        count == t.completed_pomodoros + 1
        after ==
            IF t.state = "work"
            THEN IF count % t.config.pomodoros_until_long_break = 0
                 THEN [stopped EXCEPT !.completed_pomodoros = count,
                                      !.state = "long_break",
                                      !.remaining = t.config.long_break_duration]
                 ELSE [stopped EXCEPT !.completed_pomodoros = count,
                                      !.state = "short_break",
                                      !.remaining = t.config.short_break_duration]
            ELSE [stopped EXCEPT !.state = "work",
                                 !.remaining = t.config.work_duration]
    IN  [after EXCEPT !.ret = after.state]

InitTimer ==
    /\ total_xp = 0
    /\ total_focus_seconds = 0
    /\ badges = <<>>
    /\ daily_stats = <<>>
    /\ today = NoDate
    /\ last_focus = 0
    /\ streak_dates = <<>>
    /\ result = NoResult
    /\ calls = 0
    /\ \E config \in TimerConfigs : probe = PomodoroTimer(config)

Start ==
    /\ probe' = start(probe)
    /\ UNCHANGED tracker

Stop ==
    /\ probe' = stop(probe)
    /\ UNCHANGED tracker

Reset ==
    /\ probe' = reset(probe)
    /\ UNCHANGED tracker

CompleteSession ==
    /\ probe.completed_pomodoros < MaxPomodoros
    /\ probe' = complete_session(probe)
    /\ UNCHANGED tracker

\* the time provider's reading advances by half a second
Tick ==
    /\ probe.now < MaxHalfSeconds
    /\ probe' = [probe EXCEPT !.now = probe.now + 1, !.op = "tick", !.ret = "None"]
    /\ UNCHANGED tracker

NextTimer == Start \/ Stop \/ Reset \/ CompleteSession \/ Tick

SpecTimer == InitTimer /\ [][NextTimer]_vars

\* the fields of a timer, without the clock and the record of the last call
TimerCore(t) ==
    <<t.config, t.state, t.remaining, t.start_time, t.paused_remaining,
      t.completed_pomodoros>>

\* the configured duration of a session kind
ConfiguredDuration(config, state) ==
    CASE state = "short_break" -> config.short_break_duration
      [] state = "long_break" -> config.long_break_duration
      [] OTHER -> config.work_duration

\* the remaining seconds of a running timer by the clock: the seconds it was
\* started with minus the whole seconds since, not below 0
CountedDown(t) ==
    LET whole == (t.now - t.start_time) \div 2
    IN  IF t.paused_remaining > whole THEN t.paused_remaining - whole ELSE 0

\* C24: complete_session from WORK adds exactly 1 to completed_pomodoros and
\* moves to LONG_BREAK when the new count is a multiple of
\* pomodoros_until_long_break, else to SHORT_BREAK; from a break it moves to
\* WORK and keeps the count; the timer is then not running and
\* remaining_seconds is the configured duration of the new state.
C24_CompleteSessionAdvances ==
    [][probe'.op = "complete_session" =>
         LET t == probe
             u == probe'
         IN  /\ (t.state = "work" =>
                    /\ u.completed_pomodoros = t.completed_pomodoros + 1
                    /\ u.state =
                         IF u.completed_pomodoros % t.config.pomodoros_until_long_break = 0
                         THEN "long_break" ELSE "short_break")
             /\ (t.state \in {"short_break", "long_break"} =>
                    /\ u.state = "work"
                    /\ u.completed_pomodoros = t.completed_pomodoros)
             /\ ~is_running(u)
             /\ u.start_time = None
             /\ remaining_seconds(u) = ConfiguredDuration(u.config, u.state)
             /\ u.ret = u.state
             /\ u.config = t.config]_vars

C24_Witness ==
    /\ probe.fn = "timer"
    /\ probe.op = "complete_session"
    /\ probe.state = "long_break"
    /\ probe.completed_pomodoros = 4
    /\ probe.config = DefaultTimerConfig
    /\ probe.remaining = 900

\* C25: start() on a timer that is not running returns True, makes it running,
\* turns IDLE into WORK and keeps any other state, and counts down from the
\* stored remaining seconds; start() on a running timer returns False and
\* changes neither the state nor the start time nor the remaining seconds.
C25_StartRunsOnce ==
    [][/\ (probe'.op = "start" /\ ~is_running(probe) =>
             LET t == probe
                 u == probe'
             IN  /\ u.ret = "True"
                 /\ is_running(u)
                 /\ u.state = IF t.state = "idle" THEN "work" ELSE t.state
                 /\ u.start_time = t.now
                 /\ u.paused_remaining = t.remaining
                 /\ remaining_seconds(u) = t.remaining
                 /\ u.completed_pomodoros = t.completed_pomodoros)
       /\ (probe'.op = "start" /\ is_running(probe) =>
             /\ probe'.ret = "False"
             /\ TimerCore(probe') = TimerCore(probe)
             /\ remaining_seconds(probe') = remaining_seconds(probe))
       /\ (probe'.op = "tick" /\ is_running(probe) =>
             /\ TimerCore(probe') = TimerCore(probe)
             /\ remaining_seconds(probe') = CountedDown(probe')
             /\ remaining_seconds(probe') <= remaining_seconds(probe))]_vars

C25_Witness ==
    /\ probe.fn = "timer"
    /\ probe.op = "start"
    /\ probe.ret = "True"
    /\ probe.state = "work"
    /\ probe.completed_pomodoros = 0
    /\ probe.start_time = probe.now
    /\ probe.paused_remaining = probe.config.work_duration

\* C26: stop() on a running timer returns True, makes it not running and
\* stores the remaining seconds of the stop instant (the seconds at the start
\* minus the whole seconds elapsed, not below 0); clock advances then leave
\* remaining_seconds alone and the next start() resumes from it; stop() on a
\* timer that is not running returns False and changes nothing.
C26_StopFreezesRemaining ==
    [][/\ (probe'.op = "stop" /\ is_running(probe) =>
             LET t == probe
                 u == probe'
             IN  /\ u.ret = "True"
                 /\ ~is_running(u)
                 /\ u.remaining = CountedDown(t)
                 /\ remaining_seconds(u) = CountedDown(t)
                 /\ u.state = t.state
                 /\ u.completed_pomodoros = t.completed_pomodoros)
       /\ (probe'.op = "stop" /\ ~is_running(probe) =>
             /\ probe'.ret = "False"
             /\ TimerCore(probe') = TimerCore(probe))
       /\ (probe'.op = "tick" /\ ~is_running(probe) =>
             /\ TimerCore(probe') = TimerCore(probe)
             /\ remaining_seconds(probe') = remaining_seconds(probe))
       /\ (probe'.op = "start" /\ ~is_running(probe) =>
             /\ probe'.paused_remaining = remaining_seconds(probe)
             /\ remaining_seconds(probe') = remaining_seconds(probe))]_vars

\* stopped 1.5 s after the start of a 3 s session: 2 s remain
C26_Witness ==
    /\ probe.fn = "timer"
    /\ probe.op = "stop"
    /\ probe.ret = "True"
    /\ probe.config.work_duration = 3
    /\ probe.state = "work"
    /\ probe.now = 3
    /\ probe.remaining = 2

\* C27: reset() from any state, running or not, gives state IDLE,
\* remaining_seconds = work_duration and a timer that is not running, and
\* leaves completed_pomodoros as it was.
C27_ResetKeepsCount ==
    [][probe'.op = "reset" =>
         /\ probe'.state = "idle"
         /\ probe'.remaining = probe.config.work_duration
         /\ remaining_seconds(probe') = probe.config.work_duration
         /\ ~is_running(probe')
         /\ probe'.paused_remaining = None
         /\ probe'.completed_pomodoros = probe.completed_pomodoros
         /\ probe'.config = probe.config]_vars

C27_Witness ==
    /\ probe.fn = "timer"
    /\ probe.op = "reset"
    /\ probe.state = "idle"
    /\ probe.completed_pomodoros = 3
    /\ probe.now >= 1

\* ------------------------------------- src/pomodoro/progress.py, src/app.py
\* The application holds one ProgressTracker and one GamificationTracker.  The
\* GamificationTracker is the tracker of the variables; the dict
\* _progress_data of the ProgressTracker is kept in probe as an
\* insertion-ordered sequence of DailyProgress records, with the last request,
\* the date the date provider gave it and the response.
MaxAppCalls == 2       \* POST /api/progress/complete requests in one behaviour

AppFocus == {90, 1500}

DailyProgress(date) ==
    [date |-> date, completed_pomodoros |-> 0, total_focus_seconds |-> 0]

\* format_duration: <<hours, minutes>> for "X時間Y分", <<minutes>> for "Y分"
format_duration(seconds) ==
    LET hours == seconds \div 3600
        minutes == (seconds % 3600) \div 60
    IN  IF hours > 0 THEN <<hours, minutes>> ELSE <<minutes>>

\* the property today_progress: the dict after the read (today's entry is
\* created when missing)
today_progress(data, date) ==
    IF ~HasKey(data, date) THEN Append(data, DailyProgress(date)) ELSE data

\* the faulty variant that counts the session in every entry
add_completed_pomodoro_every_day(data, date, focus_seconds) ==
    LET d == today_progress(data, date)
    IN  [i \in DOMAIN d |->
            [d[i] EXCEPT !.completed_pomodoros = @ + 1,
                         !.total_focus_seconds =
                             IF i = IndexOf(d, date) THEN @ + focus_seconds ELSE @]]

\* the dict after add_completed_pomodoro(focus_seconds)
add_completed_pomodoro(data, date, focus_seconds) ==
    LET d == today_progress(data, date)
        i == IndexOf(d, date)
    IN  [d EXCEPT ![i] = [@ EXCEPT !.completed_pomodoros = @ + 1,
                                   !.total_focus_seconds = @ + focus_seconds]]

\* the faulty variant that empties the dict
reset_today_all_days(data, date) == <<DailyProgress(date)>>

\* the dict after reset_today(): a stored key keeps its place
reset_today(data, date) ==
    IF HasKey(data, date)
    THEN [data EXCEPT ![IndexOf(data, date)] = DailyProgress(date)]
    ELSE Append(data, DailyProgress(date))

\* ProgressTracker.to_dict of a dict that holds today's entry
progress_to_dict(data, date) ==
    LET progress == data[IndexOf(data, date)]
    IN  [date |-> progress.date,
         completed_pomodoros |-> progress.completed_pomodoros,
         total_focus_seconds |-> progress.total_focus_seconds,
         total_focus_time |-> format_duration(progress.total_focus_seconds)]

InitApp ==
    /\ total_xp = 0
    /\ total_focus_seconds = 0
    /\ badges = <<>>
    /\ daily_stats = <<>>
    /\ today = NoDate
    /\ last_focus = 0
    /\ streak_dates = <<>>
    /\ result = NoResult
    /\ calls = 0
    /\ probe = [fn |-> "app", progress_data |-> <<>>, op |-> "init",
                date |-> NoDate, focus_seconds |-> 0, ret |-> NoResult]

\* GET /api/progress
GetProgress ==
    /\ \E date \in DateDomain :
           \E data \in {today_progress(probe.progress_data, date)} :
               probe' = [probe EXCEPT !.progress_data = data,
                                      !.op = "get_progress",
                                      !.date = date,
                                      !.focus_seconds = 0,
                                      !.ret = progress_to_dict(data, date)]
    /\ UNCHANGED tracker

\* POST /api/progress/complete: both trackers record the session; the two
\* date providers give the same date
CompletePomodoro ==
    /\ calls < MaxAppCalls
    /\ \E date \in DateDomain, focus_seconds \in AppFocus :
           \E data \in {add_completed_pomodoro(probe.progress_data, date, focus_seconds)},
              after \in {record_pomodoro(Self, date, focus_seconds)} :
               /\ probe' = [probe EXCEPT !.progress_data = data,
                                         !.op = "complete_pomodoro",
                                         !.date = date,
                                         !.focus_seconds = focus_seconds,
                                         !.ret = progress_to_dict(data, date)]
               /\ total_xp' = after.total_xp
               /\ total_focus_seconds' = after.total_focus_seconds
               /\ daily_stats' = after.daily_stats
               /\ badges' = after.badges
               /\ today' = date
               /\ last_focus' = focus_seconds
               /\ streak_dates' = after.streak_dates
               /\ result' = after.result
               /\ calls' = calls + 1

\* POST /api/progress/reset
ResetProgress ==
    /\ \E date \in DateDomain :
           probe' = [probe EXCEPT !.progress_data = reset_today(probe.progress_data, date),
                                  !.op = "reset_progress",
                                  !.date = date,
                                  !.focus_seconds = 0,
                                  !.ret = NoResult]
    /\ UNCHANGED tracker

NextApp == GetProgress \/ CompletePomodoro \/ ResetProgress

SpecApp == InitApp /\ [][NextApp]_vars

\* completed count and focus-seconds a dict holds for a date, 0 without entry
CountOn(data, date) ==
    IF HasKey(data, date) THEN data[IndexOf(data, date)].completed_pomodoros ELSE 0

FocusOn(data, date) ==
    IF HasKey(data, date) THEN data[IndexOf(data, date)].total_focus_seconds ELSE 0

\* every date but one has the same entry, or none, in both dicts
OthersKept(old, new, date) ==
    /\ \A i \in DOMAIN old :
           old[i].date # date =>
               HasKey(new, old[i].date) /\ new[IndexOf(new, old[i].date)] = old[i]
    /\ \A i \in DOMAIN new :
           new[i].date # date => HasKey(old, new[i].date)

\* C28: add_completed_pomodoro(s) adds exactly 1 to the completed count of the
\* current date's entry and s to its focus-seconds and leaves the entry of
\* every other date as it was; read on a date without sessions, today's count
\* and focus-seconds are 0 and the earlier days' entries keep their values.
C28_AddCountsTodayOnly ==
    [][LET old == probe.progress_data
           new == probe'.progress_data
           date == probe'.date
       IN  /\ (probe'.op = "complete_pomodoro" =>
                  /\ HasKey(new, date)
                  /\ CountOn(new, date) = CountOn(old, date) + 1
                  /\ FocusOn(new, date) = FocusOn(old, date) + probe'.focus_seconds
                  /\ probe'.ret.completed_pomodoros = CountOn(new, date)
                  /\ probe'.ret.total_focus_seconds = FocusOn(new, date)
                  /\ OthersKept(old, new, date))
           /\ (probe'.op = "get_progress" =>
                  /\ probe'.ret.date = date
                  /\ probe'.ret.completed_pomodoros = CountOn(old, date)
                  /\ probe'.ret.total_focus_seconds = FocusOn(old, date)
                  /\ (~HasKey(old, date) =>
                         /\ probe'.ret.completed_pomodoros = 0
                         /\ probe'.ret.total_focus_seconds = 0)
                  /\ OthersKept(old, new, date))]_vars

\* a second day's first session: the first day's entry keeps its session
C28_Witness ==
    /\ probe.fn = "app"
    /\ probe.op = "complete_pomodoro"
    /\ Len(probe.progress_data) = 2
    /\ probe.progress_data[1].completed_pomodoros = 1
    /\ probe.progress_data[1].total_focus_seconds = 90
    /\ probe.progress_data[2].date = probe.date
    /\ probe.progress_data[2].completed_pomodoros = 1
    /\ probe.progress_data[2].total_focus_seconds = 1500

\* C29: reset_today sets the current date's completed count and focus-seconds
\* to 0 and leaves the entries of all other dates as they were; the reset
\* request changes nothing of the gamification tracker (XP, focus-seconds,
\* badges, day statistics).
C29_ResetClearsTodayOnly ==
    [][probe'.op = "reset_progress" =>
         LET old == probe.progress_data
             new == probe'.progress_data
             date == probe'.date
         IN  /\ HasKey(new, date)
             /\ new[IndexOf(new, date)] = DailyProgress(date)
             /\ CountOn(new, date) = 0
             /\ FocusOn(new, date) = 0
             /\ OthersKept(old, new, date)
             /\ total_xp' = total_xp
             /\ total_focus_seconds' = total_focus_seconds
             /\ badges' = badges
             /\ daily_stats' = daily_stats]_vars

\* a reset on the second of two days with a session each
C29_Witness ==
    /\ probe.fn = "app"
    /\ probe.op = "reset_progress"
    /\ Len(probe.progress_data) = 2
    /\ probe.progress_data[1].completed_pomodoros = 1
    /\ probe.progress_data[2].date = probe.date
    /\ probe.progress_data[2].completed_pomodoros = 0
    /\ Len(daily_stats) = 2
    /\ daily_stats[2].date = probe.date
    /\ daily_stats[2].completed_pomodoros = 1
    /\ total_xp > 0
    /\ Len(badges) >= 1

\* ------------------------------------------------------ src/deliverManager.py
\* A DeliveryManager is a record held in probe: its recipe list, the waiting
\* list, the spawn timer (whole seconds), the count of successful recipes, the
\* KitchenGameManager's _is_game_playing, and for the last call its name, the
\* plate, the events it fired in order and the exception it raised.  An
\* ingredient is a KitchenObjectSO record, a recipe a RecipeSO record.  For an
\* update() the record also keeps the seconds the clock had advanced.
MaxDeliveries == 2     \* deliver_recipe is called while the count is below

SPAWN_RECIPE_INTERVAL == 4

MAX_WAITING_RECIPES == 4

KitchenObjectSO(name, object_id) == [name |-> name, object_id |-> object_id]

RecipeSO(name, kitchen_object_so_list) ==
    [name |-> name, kitchen_object_so_list |-> kitchen_object_so_list]

Tomato == KitchenObjectSO("Tomato", 1)

Lettuce == KitchenObjectSO("Lettuce", 2)

Bread == KitchenObjectSO("Bread", 3)

Sandwich == RecipeSO("Sandwich", <<Bread, Lettuce, Tomato>>)

Salad == RecipeSO("Salad", <<Lettuce, Tomato>>)

\* RecipeSO("Water"): the ingredient list defaults to the empty list
Water == RecipeSO("Water", <<>>)

\* an instance of a subclass of KitchenObjectSO that defines __hash__ over
\* (name, object_id): the dataclass __eq__ holds between two of its instances
\* with equal fields, and never between one of them and a KitchenObjectSO
HashableKitchenObjectSO(name, object_id) ==
    [name |-> name, object_id |-> object_id, hashable |-> TRUE]

Egg == HashableKitchenObjectSO("Egg", 4)

Rice == HashableKitchenObjectSO("Rice", 5)

Omurice == RecipeSO("Omurice", <<Egg, Egg, Rice>>)

\* the recipe lists a manager is constructed with
RecipeLists == {<<>>, <<Sandwich, Salad>>, <<Salad, Water>>, <<Omurice>>}

\* the plates handed to deliver_recipe
Plates ==
    {<<>>, <<Bread>>, <<Lettuce, Tomato>>, <<Tomato, Lettuce>>,
     <<Bread, Bread>>, <<Tomato, Lettuce, Bread>>,
     <<Rice, Egg, Egg>>, <<Egg, Rice, Rice>>}

DeliveryManager(recipe_list_so) ==
    [fn |-> "delivery", recipe_so_list |-> recipe_list_so,
     waiting_recipe_so_list |-> <<>>, spawn_recipe_timer |-> 0,
     successful_recipes_amount |-> 0, is_game_playing |-> FALSE,
     op |-> "init", plate |-> <<>>, delta_time |-> 0, events |-> <<>>,
     error |-> "none"]

RecipeEventArgs(event, recipe, success_count) ==
    [event |-> event, recipe |-> recipe, success_count |-> success_count]

\* the faulty variant that spawns into a full waiting list
update_no_limit(dm, delta_time, choice) ==
    LET timer == dm.spawn_recipe_timer - delta_time
        called == [dm EXCEPT !.op = "update", !.plate = <<>>,
                             !.delta_time = delta_time, !.events = <<>>,
                             !.error = "none"]
    IN  IF timer <= 0
        THEN LET armed == [called EXCEPT !.spawn_recipe_timer = SPAWN_RECIPE_INTERVAL]
             IN  IF /\ dm.is_game_playing
                    /\ Len(dm.waiting_recipe_so_list) <= MAX_WAITING_RECIPES
                    /\ dm.recipe_so_list # <<>>
                 THEN LET waiting_recipe_so == dm.recipe_so_list[choice]
                      IN  [armed EXCEPT
                              !.waiting_recipe_so_list = Append(@, waiting_recipe_so),
                              !.events = <<RecipeEventArgs("on_recipe_spawned",
                                               waiting_recipe_so.name,
                                               dm.successful_recipes_amount)>>]
                 ELSE armed
        ELSE [called EXCEPT !.spawn_recipe_timer = timer]

\* the faulty variant that re-arms the timer only when it spawns
update_rearm_on_spawn(dm, delta_time, choice) ==
    LET timer == dm.spawn_recipe_timer - delta_time
        called == [dm EXCEPT !.op = "update", !.plate = <<>>,
                             !.delta_time = delta_time, !.events = <<>>,
                             !.error = "none"]
    IN  IF timer <= 0
        THEN LET armed == [called EXCEPT !.spawn_recipe_timer = SPAWN_RECIPE_INTERVAL]
             IN  IF /\ dm.is_game_playing
                    /\ Len(dm.waiting_recipe_so_list) < MAX_WAITING_RECIPES
                    /\ dm.recipe_so_list # <<>>
                 THEN LET waiting_recipe_so == dm.recipe_so_list[choice]
                      IN  [armed EXCEPT
                              !.waiting_recipe_so_list = Append(@, waiting_recipe_so),
                              !.events = <<RecipeEventArgs("on_recipe_spawned",
                                               waiting_recipe_so.name,
                                               dm.successful_recipes_amount)>>]
                 ELSE [called EXCEPT !.spawn_recipe_timer = timer]
        ELSE [called EXCEPT !.spawn_recipe_timer = timer]

\* update() when time.time() has advanced by delta_time since the last call;
\* choice is the index random.choice takes
update(dm, delta_time, choice) ==
    LET timer == dm.spawn_recipe_timer - delta_time
        called == [dm EXCEPT !.op = "update", !.plate = <<>>,
                             !.delta_time = delta_time, !.events = <<>>,
                             !.error = "none"]
    IN  IF timer <= 0
        THEN LET armed == [called EXCEPT !.spawn_recipe_timer = SPAWN_RECIPE_INTERVAL]
             IN  IF /\ dm.is_game_playing
                    /\ Len(dm.waiting_recipe_so_list) < MAX_WAITING_RECIPES
                    /\ dm.recipe_so_list # <<>>
                 THEN LET waiting_recipe_so == dm.recipe_so_list[choice]
                      IN  [armed EXCEPT
                              !.waiting_recipe_so_list = Append(@, waiting_recipe_so),
                              !.events = <<RecipeEventArgs("on_recipe_spawned",
                                               waiting_recipe_so.name,
                                               dm.successful_recipes_amount)>>]
                 ELSE armed
        ELSE [called EXCEPT !.spawn_recipe_timer = timer]

\* "del self._waiting_recipe_so_list[i]"
DelAt(list, i) == SubSeq(list, 1, i - 1) \o SubSeq(list, i + 1, Len(list))

\* KitchenObjectSO is a dataclass with eq and without frozen: its __hash__ is
\* None, and set(list) raises TypeError when the list holds an instance of it
Hashable(kitchen_object_so) == "hashable" \in DOMAIN kitchen_object_so

SetRaises(list) == \E i \in DOMAIN list : ~Hashable(list[i])

\* the outcome of the loop of deliver_recipe from index i on: the index of the
\* recipe it accepts, 0 when it falls through, -1 when set() raises
RECURSIVE DeliverLoop(_, _, _)
DeliverLoop(waiting, plate_ingredients, i) ==
    IF i > Len(waiting) THEN 0
    ELSE IF Len(waiting[i].kitchen_object_so_list) # Len(plate_ingredients)
    THEN DeliverLoop(waiting, plate_ingredients, i + 1)
    ELSE IF SetRaises(waiting[i].kitchen_object_so_list) \/ SetRaises(plate_ingredients)
    THEN 0 - 1
    ELSE IF ToSet(waiting[i].kitchen_object_so_list) = ToSet(plate_ingredients)
    THEN i
    ELSE DeliverLoop(waiting, plate_ingredients, i + 1)

deliver_recipe(dm, plate_ingredients) ==
    LET called == [dm EXCEPT !.op = "deliver_recipe", !.plate = plate_ingredients,
                             !.delta_time = 0, !.events = <<>>, !.error = "none"]
        i == DeliverLoop(dm.waiting_recipe_so_list, plate_ingredients, 1)
        count == dm.successful_recipes_amount + 1
    IN  IF i = 0 - 1 THEN [called EXCEPT !.error = "TypeError"]
        ELSE IF i = 0
        THEN [called EXCEPT !.events =
                 <<RecipeEventArgs("on_recipe_failed", "None",
                                   dm.successful_recipes_amount)>>]
        ELSE [called EXCEPT
                 !.successful_recipes_amount = count,
                 !.waiting_recipe_so_list = DelAt(@, i),
                 !.events =
                     <<RecipeEventArgs("on_recipe_completed",
                                       dm.waiting_recipe_so_list[i].name, count),
                       RecipeEventArgs("on_recipe_success",
                                       dm.waiting_recipe_so_list[i].name, count)>>]

InitDelivery ==
    /\ total_xp = 0
    /\ total_focus_seconds = 0
    /\ badges = <<>>
    /\ daily_stats = <<>>
    /\ today = NoDate
    /\ last_focus = 0
    /\ streak_dates = <<>>
    /\ result = NoResult
    /\ calls = 0
    /\ \E recipe_list_so \in RecipeLists : probe = DeliveryManager(recipe_list_so)

\* the seconds time.time() advances between two update() calls
DeltaTimes == {0, 1, 2, 5}

Update ==
    /\ \E delta_time \in DeltaTimes :
           \E choice \in IF probe.recipe_so_list = <<>> THEN {0}
                         ELSE DOMAIN probe.recipe_so_list :
               probe' = update(probe, delta_time, choice)
    /\ UNCHANGED tracker

StartGame ==
    /\ probe' = [probe EXCEPT !.is_game_playing = TRUE, !.op = "start_game",
                              !.plate = <<>>, !.delta_time = 0,
                              !.events = <<>>, !.error = "none"]
    /\ UNCHANGED tracker

StopGame ==
    /\ probe' = [probe EXCEPT !.is_game_playing = FALSE, !.op = "stop_game",
                              !.plate = <<>>, !.delta_time = 0,
                              !.events = <<>>, !.error = "none"]
    /\ UNCHANGED tracker

DeliverRecipe ==
    /\ probe.successful_recipes_amount < MaxDeliveries
    /\ \E plate_ingredients \in Plates :
           probe' = deliver_recipe(probe, plate_ingredients)
    /\ UNCHANGED tracker

NextDelivery == Update \/ StartGame \/ StopGame \/ DeliverRecipe

SpecDelivery == InitDelivery /\ [][NextDelivery]_vars

\* the plate holds the ingredients of the recipe, in any order
Matches(recipe, plate_ingredients) ==
    /\ Len(recipe.kitchen_object_so_list) = Len(plate_ingredients)
    /\ ToSet(recipe.kitchen_object_so_list) = ToSet(plate_ingredients)

EventNames(events) == [i \in DOMAIN events |-> events[i].event]

\* C30 as stated: when the plate matches a waiting recipe, deliver_recipe adds
\* exactly 1 to the count, removes the first matching recipe and fires
\* on_recipe_completed then on_recipe_success with the new count; otherwise the
\* waiting list and the count stay and only on_recipe_failed fires; every call
\* signals exactly one of success and failure.  Violated: a plate as long as a
\* waiting recipe with ingredients raises TypeError and signals nothing.
C30_DeliverSignalsOnce ==
    [][probe'.op = "deliver_recipe" =>
         LET waiting == probe.waiting_recipe_so_list
             matching == {i \in DOMAIN waiting : Matches(waiting[i], probe'.plate)}
             count == probe.successful_recipes_amount
         IN  IF matching # {}
             THEN LET first == CHOOSE i \in matching : \A k \in matching : i <= k
                  IN  /\ probe'.successful_recipes_amount = count + 1
                      /\ probe'.waiting_recipe_so_list = DelAt(waiting, first)
                      /\ EventNames(probe'.events) =
                             <<"on_recipe_completed", "on_recipe_success">>
                      /\ \A e \in DOMAIN probe'.events :
                             probe'.events[e].success_count = count + 1
             ELSE /\ probe'.successful_recipes_amount = count
                  /\ probe'.waiting_recipe_so_list = waiting
                  /\ EventNames(probe'.events) = <<"on_recipe_failed">>]_vars

\* C31: under any sequence of update() and deliver_recipe() calls the waiting
\* list never holds more than MAX_WAITING_RECIPES recipes.
C31_WaitingListBounded ==
    Len(probe.waiting_recipe_so_list) <= MAX_WAITING_RECIPES

\* an update() whose timer had run down, on a full waiting list
C31_Witness ==
    /\ probe.fn = "delivery"
    /\ probe.op = "update"
    /\ probe.is_game_playing
    /\ probe.delta_time = 5
    /\ probe.events = <<>>
    /\ Len(probe.waiting_recipe_so_list) = MAX_WAITING_RECIPES

\* the spawn timer of the manager had run down in the update() just made
RanDown == probe.spawn_recipe_timer - probe'.delta_time <= 0

\* C35: update() adds at most one recipe, and one exactly when the timer has
\* run down to 0 or below, the game is playing, the waiting list holds fewer
\* than MAX_WAITING_RECIPES and the recipe list is not empty; a timer that has
\* run down is re-armed to SPAWN_RECIPE_INTERVAL whether or not a recipe was
\* added; on_recipe_spawned fires once for an added recipe and never otherwise.
C35_UpdateSpawnsAtMostOne ==
    [][probe'.op = "update" =>
         LET old == probe.waiting_recipe_so_list
             new == probe'.waiting_recipe_so_list
             may == /\ RanDown
                    /\ probe.is_game_playing
                    /\ Len(old) < MAX_WAITING_RECIPES
                    /\ probe.recipe_so_list # <<>>
         IN  /\ (may =>
                    /\ Len(new) = Len(old) + 1
                    /\ SubSeq(new, 1, Len(old)) = old
                    /\ \E k \in DOMAIN probe.recipe_so_list :
                           new[Len(new)] = probe.recipe_so_list[k]
                    /\ Len(probe'.events) = 1
                    /\ probe'.events[1].event = "on_recipe_spawned"
                    /\ probe'.events[1].recipe = new[Len(new)].name
                    /\ probe'.events[1].success_count = probe.successful_recipes_amount)
             /\ (~may => new = old /\ probe'.events = <<>>)
             /\ (RanDown => probe'.spawn_recipe_timer = SPAWN_RECIPE_INTERVAL)
             /\ (~RanDown =>
                    probe'.spawn_recipe_timer =
                        probe.spawn_recipe_timer - probe'.delta_time)
             /\ probe'.successful_recipes_amount = probe.successful_recipes_amount
             /\ probe'.is_game_playing = probe.is_game_playing]_vars

\* the timer ran down while the game was stopped: re-armed, nothing spawned
C35_Witness ==
    /\ probe.fn = "delivery"
    /\ probe.op = "update"
    /\ ~probe.is_game_playing
    /\ probe.recipe_so_list # <<>>
    /\ probe.delta_time = 2
    /\ probe.spawn_recipe_timer = SPAWN_RECIPE_INTERVAL
    /\ probe.events = <<>>
    /\ Len(probe.waiting_recipe_so_list) = 1

\* how many times a list holds an ingredient
Occurrences(list, x) == Cardinality({k \in DOMAIN list : list[k] = x})

\* the same ingredients with the same multiplicities
IsPermutation(a, b) ==
    /\ Len(a) = Len(b)
    /\ \A x \in ToSet(a) \cup ToSet(b) : Occurrences(a, x) = Occurrences(b, x)

MaxSingletonCalls == 3   \* get_instance and reset_instance calls in one behaviour

ManagerClasses == {"KitchenGameManager", "DeliveryManager"}

NotReturned == 0 - 1     \* a thread that has not returned from get_instance

RaisedValueError == 0 - 2

Singleton(cls) ==
    [fn |-> "singleton", cls |-> cls, instance |-> 0, lock |-> "free",
     next |-> 1, built |-> 0, resets |-> 0, returned |-> {}, started |-> 0,
     pc |-> [t \in Threads |-> "idle"],
     given |-> [t \in Threads |-> TRUE],
     epoch |-> [t \in Threads |-> 0],
     ret |-> [t \in Threads |-> NotReturned]]

InitSingleton ==
    /\ total_xp = 0
    /\ total_focus_seconds = 0
    /\ badges = <<>>
    /\ daily_stats = <<>>
    /\ today = NoDate
    /\ last_focus = 0
    /\ streak_dates = <<>>
    /\ result = NoResult
    /\ calls = 0
    /\ \E cls \in ManagerClasses : probe = Singleton(cls)

\* a thread calls get_instance; a DeliveryManager call may leave out
\* recipe_list_so
CallGetInstance(t) ==
    /\ probe.pc[t] = "idle"
    /\ probe.started < MaxSingletonCalls
    /\ \E given \in IF probe.cls = "DeliveryManager" THEN {TRUE, FALSE} ELSE {TRUE} :
           probe' = [probe EXCEPT !.pc[t] = "l182", !.given[t] = given,
                                  !.epoch[t] = probe.resets,
                                  !.ret[t] = NotReturned,
                                  !.started = @ + 1]
    /\ UNCHANGED tracker

\* "if cls._instance is None:", outside the lock
S182(t) ==
    /\ probe.pc[t] = "l182"
    /\ probe' = [probe EXCEPT !.pc[t] = IF probe.instance = 0 THEN "l183" ELSE "l188"]
    /\ UNCHANGED tracker

\* "with cls._lock:"
S183(t) ==
    /\ probe.pc[t] = "l183"
    /\ probe.lock = "free"
    /\ probe' = [probe EXCEPT !.pc[t] = "l184", !.lock = t]
    /\ UNCHANGED tracker

\* "if cls._instance is None:", under the lock; when it is not None the with
\* block ends
S184(t) ==
    /\ probe.pc[t] = "l184"
    /\ probe' = IF probe.instance = 0
                THEN [probe EXCEPT !.pc[t] = "l185"]
                ELSE [probe EXCEPT !.pc[t] = "l188", !.lock = "free"]
    /\ UNCHANGED tracker

\* "if recipe_list_so is None: raise ValueError(...)"
S185(t) ==
    /\ probe.pc[t] = "l185"
    /\ probe' = IF probe.given[t]
                THEN [probe EXCEPT !.pc[t] = "l187"]
                ELSE [probe EXCEPT !.pc[t] = "idle", !.lock = "free",
                                   !.ret[t] = RaisedValueError]
    /\ UNCHANGED tracker

\* "cls._instance = cls(recipe_list_so)" and the end of the with block
S187(t) ==
    /\ probe.pc[t] = "l187"
    /\ probe' = [probe EXCEPT !.pc[t] = "l188", !.lock = "free",
                              !.instance = probe.next,
                              !.next = @ + 1, !.built = @ + 1]
    /\ UNCHANGED tracker

\* "return cls._instance"
S188(t) ==
    /\ probe.pc[t] = "l188"
    /\ probe' = [probe EXCEPT !.pc[t] = "idle", !.ret[t] = probe.instance,
                              !.returned = IF probe.epoch[t] = probe.resets
                                           THEN @ \cup {probe.instance} ELSE @]
    /\ UNCHANGED tracker

\* a thread calls reset_instance: "with cls._lock:"
S193(t) ==
    /\ probe.pc[t] = "idle"
    /\ probe.started < MaxSingletonCalls
    /\ probe.lock = "free"
    /\ probe' = [probe EXCEPT !.pc[t] = "l194", !.lock = t, !.started = @ + 1]
    /\ UNCHANGED tracker

\* "cls._instance = None" and the end of the with block
S194(t) ==
    /\ probe.pc[t] = "l194"
    /\ probe' = [probe EXCEPT !.pc[t] = "idle", !.lock = "free", !.instance = 0,
                              !.built = 0, !.resets = @ + 1, !.returned = {}]
    /\ UNCHANGED tracker

GetInstance ==
    \E t \in Threads :
        CallGetInstance(t) \/ S182(t) \/ S183(t) \/ S184(t) \/ S185(t)
            \/ S187(t) \/ S188(t)

ResetInstance == \E t \in Threads : S193(t) \/ S194(t)

NextSingleton == GetInstance \/ ResetInstance

SpecSingleton == InitSingleton /\ [][NextSingleton]_vars

\* C32 as stated: under any interleaving of get_instance and reset_instance
\* calls of several threads, no get_instance call returns None, at most one
\* instance is constructed between two resets, and the calls between two
\* resets all return the same instance.  Violated: a reset between the test
\* "cls._instance is None" and "return cls._instance" makes the call return
\* None.
C32_SingletonThreadSafe ==
    /\ \A t \in Threads : probe.ret[t] # 0
    /\ probe.built <= 1
    /\ Cardinality(probe.returned) <= 1

\* C33 as stated: a non-zero result of calculate_streak is the length of a run
\* of consecutive days of the dates whose last day is today or yesterday, for
\* every list of dates, dates later than today included.  Violated: with a
\* most recent date after today the run counted ends at that later date.
C33_StreakEndsTodayOrYesterday ==
    (probe.fn = "calculate_streak" /\ probe.res # 0) =>
        LET S == {ParseDate(probe.dates[i]) : i \in DOMAIN probe.dates}
            t == ParseDate(probe.today)
        IN  \E last \in {t, t - 1} :
                \A k \in 0..(probe.res - 1) : (last - k) \in S

\* ---------------------------------------------------------------------
\* Day map after a completed call

\* the keys of the day map dated from the first of the month through date
KeysInMonth(ds, date) ==
    {i \in DOMAIN ds : /\ MonthStart(date) <= ParseDate(ds[i].date)
                       /\ ParseDate(ds[i].date) <= ParseDate(date)}

\* C37 as stated: after every completed record_pomodoro call every DayStat
\* of the day map has a completed-session count of at least 1, and
\* active_days of get_monthly_stats equals the number of day-map keys inside
\* the month window.  A call that raised after _get_or_create_daily_stats
\* leaves a DayStat with count 0 that later completed calls keep.
C37_EveryDayStatHasSession ==
    [][(calls' = calls + 1 /\ probe'.raised = probe.raised) =>
           /\ \A i \in DOMAIN daily_stats' :
                  daily_stats'[i].completed_pomodoros >= 1
           /\ get_monthly_stats(daily_stats', today').active_days
                  = Cardinality(KeysInMonth(daily_stats', today'))]_vars

\* ---------------------------------------------------------------------
\* Queries between record_pomodoro calls

MaxFrameCalls == 2
MaxFrameQueries == 2

FrameFocus == {90, 1500}

\* the query operations of the tracker
Queries == {"level", "total_xp", "streak_days", "badges", "get_weekly_stats",
            "get_monthly_stats", "get_xp_progress", "to_dict"}

\* faulty variant: the lookup stores its default, as dict.setdefault does
dict_after_setdefault(ds, date) == get_or_create_daily_stats(ds, date)

\* the day map after self._daily_stats.get(date_str, DailyStats(date=date_str))
dict_after_get(ds, date) == ds

\* the day map after the lookups of get_weekly_stats, from day i of the week
RECURSIVE WeekLookups(_, _, _)
WeekLookups(ds, week_start, i) ==
    IF i = 7 THEN ds
    ELSE WeekLookups(dict_after_get(ds, IsoFormat(week_start + i)),
                     week_start, i + 1)

\* the day map after a query: get_weekly_stats, and to_dict which calls it,
\* look the seven days of the week up; the other queries read the fields
query_day_map(name, ds, date) ==
    IF name \in {"get_weekly_stats", "to_dict"}
    THEN WeekLookups(ds, ParseDate(date) - Weekday(ParseDate(date)), 0)
    ELSE ds

\* probe counts the queries since the last record_pomodoro call (since) and
\* those between the last two (between), and keeps the tracker's fields as
\* the last record_pomodoro call left them (before)
InitFrame ==
    /\ total_xp = 0
    /\ total_focus_seconds = 0
    /\ badges = <<>>
    /\ daily_stats = <<>>
    /\ today = NoDate
    /\ last_focus = 0
    /\ streak_dates = <<>>
    /\ result = NoResult
    /\ calls = 0
    /\ probe = [fn |-> "query", name |-> "none", since |-> 0, between |-> 0,
                before |-> [total_xp |-> 0, total_focus_seconds |-> 0,
                            badges |-> <<>>, daily_stats |-> <<>>]]

RecordFrame ==
    /\ calls < MaxFrameCalls
    /\ \E date \in DateDomain, focus_seconds \in FrameFocus :
           \E after \in {record_pomodoro(Self, date, focus_seconds)} :
               /\ total_xp' = after.total_xp
               /\ total_focus_seconds' = after.total_focus_seconds
               /\ daily_stats' = after.daily_stats
               /\ badges' = after.badges
               /\ today' = date
               /\ last_focus' = focus_seconds
               /\ streak_dates' = after.streak_dates
               /\ result' = after.result
               /\ calls' = calls + 1
               /\ probe' = [probe EXCEPT
                               !.name = "none", !.since = 0, !.between = probe.since,
                               !.before = [total_xp |-> after.total_xp,
                                           total_focus_seconds |-> after.total_focus_seconds,
                                           badges |-> after.badges,
                                           daily_stats |-> after.daily_stats]]

Query ==
    /\ probe.since < MaxFrameQueries
    /\ \E name \in Queries, date \in QueryDates :
           /\ daily_stats' = query_day_map(name, daily_stats, date)
           /\ probe' = [probe EXCEPT !.name = name, !.since = @ + 1]
    /\ UNCHANGED <<total_xp, total_focus_seconds, badges, today, last_focus,
                   streak_dates, result, calls>>

NextFrame ==
    \/ RecordFrame
    \/ Query

SpecFrame == InitFrame /\ [][NextFrame]_vars

\* C36: a query (level, total_xp, streak_days, badges, get_weekly_stats,
\* get_monthly_stats, get_xp_progress, to_dict) leaves total XP, total
\* focus-seconds, the badge list and the day map with its key set as they
\* were, and a record_pomodoro call after any number of queries returns what
\* it returns on the fields the previous record_pomodoro call left.
C36_QueriesLeaveStateUnchanged ==
    [][/\ probe'.since > probe.since =>
              UNCHANGED <<total_xp, total_focus_seconds, badges, daily_stats>>
       /\ calls' = calls + 1 =>
              result' = record_pomodoro(probe.before, today', last_focus').result]_vars

\* two queries ran between the two record_pomodoro calls, and get_weekly_stats
\* has looked up a week of which at most two days have a DayStat
C36_Witness ==
    /\ calls = 2
    /\ probe.between >= 2
    /\ probe.since >= 1
    /\ probe.name = "get_weekly_stats"
    /\ Len(daily_stats) = 2

\* ---------------------------------------------------------------------
\* Badge hierarchy

\* the position of the first badge of kind k in the badge list
FirstIndex(bs, k) ==
    CHOOSE i \in DOMAIN bs :
        /\ bs[i].badge_type = k
        /\ \A j \in 1..(i - 1) : bs[j].badge_type # k

\* owning the badge hi means owning the badge lo, earlier in the list
Precedes(bs, lo, hi) ==
    hi \in Owned(bs) =>
        /\ lo \in Owned(bs)
        /\ FirstIndex(bs, lo) < FirstIndex(bs, hi)

BadgePairs ==
    {<<"streak_3", "streak_7">>, <<"streak_7", "streak_30">>,
     <<"weekly_10", "weekly_25">>, <<"monthly_50", "monthly_100">>,
     <<"level_5", "level_10">>}

\* C38: in every reachable tracker state a non-empty badge list starts with
\* first_pomodoro; streak_30 owned implies streak_7 owned implies streak_3
\* owned, weekly_25 implies weekly_10, monthly_100 implies monthly_50,
\* level_10 implies level_5; and the lower badge of each pair comes before
\* the higher one in the list.
C38_BadgeHierarchy ==
    /\ Len(badges) > 0 => badges[1].badge_type = "first_pomodoro"
    /\ \A p \in BadgePairs : Precedes(badges, p[1], p[2])

\* the higher badge of three pairs is owned
C38_Witness ==
    /\ {"weekly_25", "monthly_100", "level_10"} \subseteq Owned(badges)
    /\ Len(badges) >= 7

\* ---------------------------------------------------------------------
\* Timer invariants

\* TimerConfig is a plain dataclass: any integers are accepted as durations
SignedTimerConfigs == TimerConfigs \cup {TimerConfig(0 - 2, 1, 2, 2)}

InitSignedTimer ==
    /\ total_xp = 0
    /\ total_focus_seconds = 0
    /\ badges = <<>>
    /\ daily_stats = <<>>
    /\ today = NoDate
    /\ last_focus = 0
    /\ streak_dates = <<>>
    /\ result = NoResult
    /\ calls = 0
    /\ \E config \in SignedTimerConfigs : probe = PomodoroTimer(config)

SpecSignedTimer == InitSignedTimer /\ [][NextTimer]_vars

NonNegativeDurations(config) ==
    /\ config.work_duration >= 0
    /\ config.short_break_duration >= 0
    /\ config.long_break_duration >= 0

\* what C39 says of one timer state
TimerStateOk(t) ==
    /\ 0 <= remaining_seconds(t)
    /\ remaining_seconds(t) <= ConfiguredDuration(t.config, t.state)
    /\ is_running(t) <=> (t.start_time # None /\ t.paused_remaining # None)

\* what C39 says of one step from timer state t to u
TimerStepOk(t, u) ==
    /\ (is_running(t) /\ is_running(u)) =>
           remaining_seconds(u) <= remaining_seconds(t)
    /\ u.completed_pomodoros >= t.completed_pomodoros
    /\ u.completed_pomodoros # t.completed_pomodoros =>
           u.op = "complete_session" /\ t.state = "work"
    /\ u.op = "tick" =>
           /\ TimerCore(u) = TimerCore(t)
           /\ (remaining_seconds(u) = 0 /\ is_running(u)) => is_finished(u)

C39_TimerInvariantsNonNegative ==
    /\ [](NonNegativeDurations(probe.config) => TimerStateOk(probe))
    /\ [][NonNegativeDurations(probe.config) => TimerStepOk(probe, probe')]_vars

\* a running break of a non-negative configuration has counted down to 0 after
\* a completed work session, and the state is still the break
C39_Witness ==
    /\ NonNegativeDurations(probe.config)
    /\ probe.op = "tick"
    /\ is_running(probe)
    /\ remaining_seconds(probe) = 0
    /\ is_finished(probe)
    /\ probe.state = "short_break"
    /\ probe.completed_pomodoros >= 1

====
